---- MODULE Spec2Model ----
(***************************************************************************)
(* Compliance check registry (core/compliance_engine.py, core/models.py)   *)
(* and maintenance schedule automation (rpas/models.py) of the RPAS        *)
(* record-keeping application, as state machines.                          *)
(*                                                                         *)
(* Time is counted in whole hours for the compliance registry and in whole *)
(* days for the maintenance schedules; timezone.now() is constant within   *)
(* one call.                                                               *)
(***************************************************************************)
EXTENDS Bags, FiniteSets, Integers, Sequences, TLC

\* ---------------------------------------------------------------- bounds
MaxClock == 2          \* the clock runs over 0..MaxClock hours
MaxFreq == 1           \* check_frequency_hours ranges over 0..MaxFreq
MaxDay == 2            \* the calendar runs over days 0..MaxDay
MaxItems == 2          \* scans run while the work items are fewer than this
MaxHeaders == 2        \* technical log entries of one aircraft on one day
MaxHours == 1          \* current_flight_hours ranges over 0..MaxHours

\* ------------------------------------------------------------- constants
NoTime == -1           \* NULL in a nullable DateTimeField / DateField

GREEN == "green"
YELLOW == "yellow"
RED == "red"
ComplianceStatus == {GREEN, YELLOW, RED}

\* Two rules, ordered by rule_code (ComplianceRule.Meta.ordering).
Rules == {"R1", "R2"}
RuleOrder == <<"R1", "R2">>
RuleSeverity == [r \in Rules |-> IF r = "R1" THEN RED ELSE YELLOW]

\* Two objects of different content types that share the object id, so that
\* the content type is a real part of the key of a check.
Objects == {[content_type |-> "aircraft", object_id |-> 1],
            [content_type |-> "operator", object_id |-> 1]}
None == [content_type |-> "none", object_id |-> 0]

\* the rule whose configuration is edited administratively
EditedRules == {"R2"}

Verdicts == {"pass", "fail"}
\* Where a call may fail: in get_or_create, in the evaluation of the rule, or
\* in the final check.save().  (A failure of the save inside
\* update_next_check_due leaves the table as a failed evaluation does.)
Stages == {"get_or_create", "evaluate", "save"}
NoFault == [rule |-> "none", stage |-> "none"]
Faults == {NoFault} \cup [rule : Rules, stage : Stages]

VARIABLES
    now,        \* timezone.now(), in hours
    rules,      \* ComplianceRule table: rule_code -> configuration
    exists,     \* which objects are still in the object store
    checks,     \* ComplianceCheck table, a bag of rows
    results,    \* what the last engine call returned (or that it raised)
    call,       \* ghost: what the last engine call selected and evaluated
    today,      \* timezone.now().date(), in days
    aircraft,   \* RPASAircraft table: aircraft -> is_active, flight hours
    schedules,  \* F2MaintenanceSchedule table: schedule -> row
    headers,    \* RPASTechnicalLogPartA rows of today, counted per aircraft
    items,      \* F2MaintenanceRequired table, a bag of rows
    report,     \* what the last scan returned (or that it raised)
    category,   \* the RiskCategory row of the entry
    entry,      \* the RiskRegister instance the caller holds
    register,   \* RiskRegister table: the stored row of the entry, if any
    outcome,    \* what the last risk register call did
    scans,      \* the two overlapping scans: line reached, instance held
    fact,       \* what the scanned rule finds on the object: pass or fail
    operation,  \* the FlightOperation row and the last call on it
    registrations, \* AircraftRegistration rows of one aircraft
    renewal     \* what the last registration call did

cvars == <<now, rules, exists, checks, results, call>>
mvars == <<today, aircraft, schedules, headers, items, report>>
rvars == <<category, entry, register, outcome>>
xvars == <<scans, fact, operation, registrations, renewal>>
vars == <<now, rules, exists, checks, results, call,
          today, aircraft, schedules, headers, items, report,
          category, entry, register, outcome,
          scans, fact, operation, registrations, renewal>>

\* ------------------------------------------------------------ table rows
Pair(obj, rule) ==
    [content_type |-> obj.content_type, object_id |-> obj.object_id,
     rule |-> rule]

KeyOf(c) ==
    [content_type |-> c.content_type, object_id |-> c.object_id,
     rule |-> c.rule]

ObjectOfRow(c) == [content_type |-> c.content_type, object_id |-> c.object_id]

Pairs == {Pair(o, r) : o \in Objects, r \in Rules}

Rows(tbl) == BagToSet(tbl)

\* ComplianceCheck.objects.filter(content_type=, object_id=, rule=)
MatchingRows(tbl, obj, rule) == {c \in Rows(tbl) : KeyOf(c) = Pair(obj, rule)}

RECURSIVE SumCopies(_, _)
SumCopies(tbl, S) ==
    IF S = {} THEN 0
    ELSE LET c == CHOOSE x \in S : TRUE
         IN CopiesIn(c, tbl) + SumCopies(tbl, S \ {c})

\* number of rows stored under a key
RowCount(tbl, obj, rule) == SumCopies(tbl, MatchingRows(tbl, obj, rule))

\* Model.save() of a loaded row: the stored row is replaced by the instance
SaveRow(tbl, old, new) == (tbl (-) SetToBag({old})) (+) SetToBag({new})

\* ------------------------------------------------------ rule evaluation
\* ComplianceRule.evaluate_against_object: PASS maps to green, FAIL to the
\* rule's severity.
evaluate_against_object(cfg, rule, verdict) ==
    IF verdict = "pass" THEN GREEN ELSE cfg[rule].severity

\* ComplianceCheck.update_next_check_due, on the in-memory instance
update_next_check_due(row, cfg, t) ==
    IF cfg[row.rule].check_frequency_hours # 0
    THEN [row EXCEPT !.next_check_due = t + cfg[row.rule].check_frequency_hours]
    ELSE row

\* whether update_next_check_due reaches its self.save()
SavesInUpdate(row, cfg) == cfg[row.rule].check_frequency_hours # 0

\* the lookup of ComplianceCheck.objects.get_or_create(content_type=,
\* object_id=, rule=, defaults={...}) with the defaults put among the lookup
\* fields
get_or_create_lookup_with_defaults(tbl, obj, rule) ==
    {c \in MatchingRows(tbl, obj, rule) : c.status = GREEN}

\* the lookup of ComplianceCheck.objects.get_or_create(content_type=,
\* object_id=, rule=, defaults={...})
get_or_create_lookup(tbl, obj, rule) == MatchingRows(tbl, obj, rule)

\* the overall_status update without its "!= RED" guard
WorstCaseWins_last_wins(overall, status) ==
    IF status = RED THEN RED
    ELSE IF status = YELLOW THEN YELLOW
    ELSE overall

\* "worst case wins" update of overall_status in check_object_compliance
WorstCaseWins(overall, status) ==
    IF status = RED THEN RED
    ELSE IF status = YELLOW /\ overall # RED THEN YELLOW
    ELSE overall

\* One iteration of the loop of check_object_compliance over `rule`.
\* acc.raised is set when the iteration raises; acc.tbl holds what has been
\* written to the table up to that point.
CheckOneRule(acc, obj, rule, cfg, t, verdict, fault) ==
    LET hit(stage) == fault.rule = rule /\ fault.stage = stage
        found == get_or_create_lookup(acc.tbl, obj, rule)
        n == SumCopies(acc.tbl, found)
        fresh == [content_type |-> obj.content_type,
                  object_id |-> obj.object_id, rule |-> rule,
                  status |-> GREEN, details |-> NoTime,
                  last_checked |-> t, next_check_due |-> NoTime]
    IN
    IF hit("get_or_create") \/ n > 1
    THEN [acc EXCEPT !.raised = TRUE]
    ELSE
    LET row == IF n = 0 THEN fresh ELSE CHOOSE c \in found : TRUE
        tbl1 == IF n = 0 THEN acc.tbl (+) SetToBag({fresh}) ELSE acc.tbl
    IN
    IF hit("evaluate")
    THEN [acc EXCEPT !.tbl = tbl1, !.raised = TRUE]
    ELSE
    LET status == evaluate_against_object(cfg, rule, verdict)
        row1 == [row EXCEPT !.status = status, !.details = t]
        row2 == update_next_check_due(row1, cfg, t)
        saved2 == [row2 EXCEPT !.last_checked = t]
        tbl2 == IF SavesInUpdate(row1, cfg)
                THEN SaveRow(tbl1, row, saved2) ELSE tbl1
    IN
    IF hit("save")
    THEN [acc EXCEPT !.tbl = tbl2, !.raised = TRUE]
    ELSE
    [tbl |-> SaveRow(tbl1, row, saved2),
     raised |-> FALSE,
     overall_status |-> WorstCaseWins(acc.overall_status, status),
     checks_performed |-> acc.checks_performed + 1,
     checks_passed |-> acc.checks_passed + (IF status = GREEN THEN 1 ELSE 0),
     checks_failed |-> acc.checks_failed + (IF status = GREEN THEN 0 ELSE 1),
     rule_results |-> Append(acc.rule_results,
                             [rule |-> rule, status |-> status]),
     evaluated |-> acc.evaluated \cup {Pair(obj, rule)}]

RECURSIVE CheckRules(_, _, _, _, _, _, _, _)
CheckRules(acc, obj, ruleSeq, i, cfg, t, verdict, fault) ==
    IF acc.raised \/ i > Len(ruleSeq) THEN acc
    ELSE CheckRules(CheckOneRule(acc, obj, ruleSeq[i], cfg, t,
                                 verdict[ruleSeq[i]], fault),
                    obj, ruleSeq, i + 1, cfg, t, verdict, fault)

\* ComplianceEngine.get_applicable_rules: the active rules, by rule_code
RECURSIVE FilterSeq(_, _, _)
FilterSeq(s, keep, i) ==
    IF i > Len(s) THEN <<>>
    ELSE (IF s[i] \in keep THEN <<s[i]>> ELSE <<>>) \o FilterSeq(s, keep, i + 1)

get_applicable_rules(cfg) ==
    FilterSeq(RuleOrder, {r \in DOMAIN cfg : cfg[r].is_active}, 1)

\* ComplianceEngine.check_object_compliance(obj, rules): the state of the
\* call when it returns or raises.
check_object_compliance(tbl, obj, ruleSeq, cfg, t, verdict, fault) ==
    LET start == [tbl |-> tbl, raised |-> FALSE, overall_status |-> GREEN,
                  checks_performed |-> 0, checks_passed |-> 0,
                  checks_failed |-> 0, rule_results |-> <<>>,
                  evaluated |-> {}]
    IN IF obj = None THEN [start EXCEPT !.raised = TRUE]
       ELSE CheckRules(start, obj, ruleSeq, 1, cfg, t, verdict, fault)

\* ComplianceMixin.compliance_status
compliance_status(tbl, obj, cfg) ==
    LET cs == {c \in Rows(tbl) :
                 ObjectOfRow(c) = obj /\ cfg[c.rule].is_active}
    IN IF cs = {} THEN GREEN
       ELSE IF \E c \in cs : c.status = RED THEN RED
       ELSE IF \E c \in cs : c.status = YELLOW THEN YELLOW
       ELSE GREEN

\* ------------------------------------------------- what a call returned
NoResults ==
    [op |-> "none", raised |-> FALSE, object |-> None,
     overall_status |-> GREEN, checks_performed |-> 0, checks_passed |-> 0,
     checks_failed |-> 0, rule_results |-> <<>>,
     overdue_checks_found |-> 0, checks_completed |-> 0,
     objects_processed |-> <<>>,
     total_objects |-> 0, compliant_objects |-> 0, warning_objects |-> 0,
     non_compliant_objects |-> 0, object_results |-> <<>>]

NoCall ==
    [op |-> "none", selected |-> {}, evaluated |-> {}, failing |-> {},
     faulted |-> {}]

\* the dict returned by check_object_compliance
ObjectResult(obj, r) ==
    [object |-> obj, overall_status |-> r.overall_status,
     checks_performed |-> r.checks_performed,
     checks_passed |-> r.checks_passed, checks_failed |-> r.checks_failed,
     rule_results |-> r.rule_results]

\* ------------------------------------------------- scheduled re-checking
\* the filter with next_check_due__lte in place of next_check_due__lt
IsSelectedAsDue_lte(c, cfg, t) ==
    c.next_check_due # NoTime /\ c.next_check_due <= t /\ cfg[c.rule].is_active

\* the filter of ComplianceEngine.get_overdue_checks
IsSelectedAsDue(c, cfg, t) ==
    c.next_check_due # NoTime /\ c.next_check_due < t /\ cfg[c.rule].is_active

OverdueRows(tbl, cfg, t) == {c \in Rows(tbl) : IsSelectedAsDue(c, cfg, t)}

\* ComplianceEngine.get_overdue_checks: the overdue rows as a list in the
\* order of ComplianceCheck.Meta.ordering ("-last_checked"); rows checked at
\* the same time come in any order.
get_overdue_checks(tbl, cfg, t) ==
    LET S == OverdueRows(tbl, cfg, t)
        n == Cardinality(S)
    IN {s \in [1..n -> S] :
          /\ \A i, j \in 1..n : i # j => s[i] # s[j]
          /\ \A i, j \in 1..n :
                i < j => s[i].last_checked >= s[j].last_checked}

\* GenericForeignKey content_object: None when the object is gone
content_object(c, ex) ==
    IF ObjectOfRow(c) \in Objects /\ ex[ObjectOfRow(c)]
    THEN ObjectOfRow(c) ELSE None

\* "Group checks by object": the dict objects_to_check as a list of
\* [object, rules] in insertion order
RECURSIVE GroupByObject(_, _, _, _)
GroupByObject(groups, overdue, i, ex) ==
    IF i > Len(overdue) THEN groups
    ELSE
    LET obj == content_object(overdue[i], ex)
        at == {k \in 1..Len(groups) : groups[k].object = obj}
        next == IF at = {}
                THEN Append(groups, [object |-> obj,
                                     rules |-> <<overdue[i].rule>>])
                ELSE LET k == CHOOSE x \in at : TRUE
                     IN [groups EXCEPT
                           ![k].rules = Append(@, overdue[i].rule)]
    IN GroupByObject(next, overdue, i + 1, ex)

\* the loop over the objects without its try/except: the first check that
\* raises ends the run
RECURSIVE ProcessGroups_no_except(_, _, _, _, _, _, _)
ProcessGroups_no_except(acc, groups, i, cfg, t, verdict, fault) ==
    IF i > Len(groups) THEN acc
    ELSE
    LET g == groups[i]
        f == IF fault.object = g.object /\ g.object # None
             THEN [rule |-> fault.rule, stage |-> fault.stage] ELSE NoFault
        vd == [r \in Rules |->
                 IF g.object # None THEN verdict[Pair(g.object, r)]
                 ELSE "pass"]
        r == check_object_compliance(acc.tbl, g.object, g.rules, cfg, t,
                                     vd, f)
    IN IF r.raised
       THEN [acc EXCEPT !.tbl = r.tbl, !.evaluated = @ \cup r.evaluated]
       ELSE ProcessGroups_no_except(
              [tbl |-> r.tbl,
               checks_completed |-> acc.checks_completed + r.checks_performed,
               checks_failed |-> acc.checks_failed,
               objects_processed |->
                   Append(acc.objects_processed,
                          [object |-> g.object, error |-> FALSE,
                           status |-> r.overall_status,
                           checks |-> r.checks_performed]),
               evaluated |-> acc.evaluated \cup r.evaluated],
              groups, i + 1, cfg, t, verdict, fault)

\* "Process each object with its overdue rules": the try/except loop
RECURSIVE ProcessGroups(_, _, _, _, _, _, _)
ProcessGroups(acc, groups, i, cfg, t, verdict, fault) ==
    IF i > Len(groups) THEN acc
    ELSE
    LET g == groups[i]
        f == IF fault.object = g.object /\ g.object # None
             THEN [rule |-> fault.rule, stage |-> fault.stage] ELSE NoFault
        vd == [r \in Rules |->
                 IF g.object # None THEN verdict[Pair(g.object, r)]
                 ELSE "pass"]
        r == check_object_compliance(acc.tbl, g.object, g.rules, cfg, t,
                                     vd, f)
        next ==
          IF r.raised
          THEN [acc EXCEPT
                  !.tbl = r.tbl,
                  !.evaluated = @ \cup r.evaluated,
                  !.checks_failed = @ + Len(g.rules),
                  !.objects_processed =
                      Append(@, [object |-> g.object, error |-> TRUE,
                                 status |-> GREEN, checks |-> Len(g.rules)])]
          ELSE [tbl |-> r.tbl,
                checks_completed |-> acc.checks_completed + r.checks_performed,
                checks_failed |-> acc.checks_failed,
                objects_processed |->
                    Append(acc.objects_processed,
                           [object |-> g.object, error |-> FALSE,
                            status |-> r.overall_status,
                            checks |-> r.checks_performed]),
                evaluated |-> acc.evaluated \cup r.evaluated]
    IN ProcessGroups(next, groups, i + 1, cfg, t, verdict, fault)

\* ComplianceEngine.run_scheduled_compliance_checks
run_scheduled_compliance_checks(tbl, overdue, ex, cfg, t, verdict, fault) ==
    LET start == [tbl |-> tbl, checks_completed |-> 0, checks_failed |-> 0,
                  objects_processed |-> <<>>, evaluated |-> {}]
    IN ProcessGroups(start, GroupByObject(<<>>, overdue, 1, ex), 1,
                     cfg, t, verdict, fault)


\* ComplianceEngine.bulk_check_compliance: no try/except, so the first
\* object whose check raises ends the call
RECURSIVE BulkCheck(_, _, _, _, _, _, _)
BulkCheck(acc, objs, i, cfg, t, verdict, fault) ==
    IF acc.raised \/ i > Len(objs) THEN acc
    ELSE
    LET obj == objs[i]
        f == IF fault.object = obj
             THEN [rule |-> fault.rule, stage |-> fault.stage] ELSE NoFault
        vd == [r \in Rules |-> verdict[Pair(obj, r)]]
        r == check_object_compliance(acc.tbl, obj, get_applicable_rules(cfg),
                                     cfg, t, vd, f)
        next ==
          IF r.raised
          THEN [acc EXCEPT !.tbl = r.tbl, !.raised = TRUE,
                           !.evaluated = @ \cup r.evaluated]
          ELSE [tbl |-> r.tbl, raised |-> FALSE,
                compliant_objects |-> acc.compliant_objects
                    + (IF r.overall_status = GREEN THEN 1 ELSE 0),
                warning_objects |-> acc.warning_objects
                    + (IF r.overall_status = YELLOW THEN 1 ELSE 0),
                non_compliant_objects |-> acc.non_compliant_objects
                    + (IF r.overall_status \notin {GREEN, YELLOW}
                       THEN 1 ELSE 0),
                object_results |-> Append(acc.object_results,
                                          ObjectResult(obj, r)),
                evaluated |-> acc.evaluated \cup r.evaluated]
    IN BulkCheck(next, objs, i + 1, cfg, t, verdict, fault)

\* the loop started at the second object of the list
bulk_check_compliance_skip_first(tbl, objs, cfg, t, verdict, fault) ==
    LET start == [tbl |-> tbl, raised |-> FALSE, compliant_objects |-> 0,
                  warning_objects |-> 0, non_compliant_objects |-> 0,
                  object_results |-> <<>>, evaluated |-> {}]
    IN BulkCheck(start, objs, 2, cfg, t, verdict, fault)

\* ComplianceEngine.bulk_check_compliance
bulk_check_compliance(tbl, objs, cfg, t, verdict, fault) ==
    LET start == [tbl |-> tbl, raised |-> FALSE, compliant_objects |-> 0,
                  warning_objects |-> 0, non_compliant_objects |-> 0,
                  object_results |-> <<>>, evaluated |-> {}]
    IN BulkCheck(start, objs, 1, cfg, t, verdict, fault)

\* ---------------------------------------------------------------- inputs
NoRunFault == [object |-> None, rule |-> "none", stage |-> "none"]

\* at most one injected failure per call, at one stage of one pair
RunFaults(pairs) ==
    {NoRunFault} \cup
    {[object |-> [content_type |-> p.content_type, object_id |-> p.object_id],
      rule |-> p.rule, stage |-> st] : p \in pairs, st \in Stages}

\* a verdict for each pair of `pairs`; the other pairs are not evaluated
VerdictsFor(pairs) ==
    {[p \in Pairs |-> IF p \in pairs THEN v[p] ELSE "pass"] :
        v \in [pairs -> Verdicts]}

\* the rule lists a caller may pass to check_object_compliance
RuleLists(cfg) ==
    {<<r>> : r \in DOMAIN cfg}
    \cup {s \in [1..2 -> DOMAIN cfg] : s[1] # s[2]}

SeqToSet(s) == {s[i] : i \in 1..Len(s)}

\* the object lists a caller may pass to bulk_check_compliance
ObjectLists(ex) ==
    LET live == {o \in Objects : ex[o]}
    IN {<<>>} \cup {<<o>> : o \in live}
       \cup {<<o1, o2>> : o1 \in live, o2 \in live}

\* ======================================================= maintenance schedules
Aircraft == {"A1", "A2"}
Schedules == {"S1", "S2"}
\* F2MaintenanceSchedule.Meta.ordering: aircraft_model, schedule_type,
\* priority; the two schedules are of one aircraft model, and "calendar"
\* sorts before "flight_hours".
ScheduleOrder == <<"S1", "S2">>
\* the aircraft whose flight hours are logged, the aircraft for which
\* technical log entries are filed by hand, and the rows that are edited
\* administratively
FlownAircraft == {"A2"}
LoggedAircraft == {"A1"}
GroundedAircraft == {"A2"}
EditedSchedules == {"S1"}
AutoGenerateEdited == {"S2"}

\* the advance notice of the flight-hours trigger, in hours
FlightHoursAdvance == 5

\* A calendar schedule of aircraft A1 and a flight-hours schedule of aircraft
\* A2.  A NULL interval is written 0: the code only tests it for truth.
InitSchedules ==
    [s \in Schedules |->
       IF s = "S1"
       THEN [aircraft |-> "A1", schedule_type |-> "calendar",
             maintenance_item |-> "ANNUAL INSPECTION",
             calendar_interval_days |-> 2, flight_hours_interval |-> 0,
             advance_notice_days |-> 1, is_active |-> TRUE,
             auto_generate_required |-> TRUE, total_generated_items |-> 0,
             last_generated_date |-> NoTime]
       ELSE [aircraft |-> "A2", schedule_type |-> "flight_hours",
             maintenance_item |-> "BATTERY SERVICE",
             calendar_interval_days |-> 0,
             flight_hours_interval |-> FlightHoursAdvance + 1,
             advance_notice_days |-> 1, is_active |-> TRUE,
             auto_generate_required |-> TRUE, total_generated_items |-> 0,
             last_generated_date |-> NoTime]]

\* F2MaintenanceSchedule.get_applicable_aircraft.  The is_active that it
\* reads on the aircraft is not a field of the RPASAircraft class at hand; it
\* is taken to be a flag of the aircraft (active = the schedule applies).
get_applicable_aircraft(sch, ac) ==
    IF ac[sch.aircraft].is_active THEN <<sch.aircraft>> ELSE <<>>

\* filter(f2_header__aircraft=aircraft, item__icontains=maintenance_item[:20]):
\* the item names of the two schedules are shorter than 20 characters and
\* neither occurs in the other, so a description contains the prefix exactly
\* when it was built from that name.
MatchesSchedule(it, sch, a) ==
    it.aircraft = a /\ it.item = sch.maintenance_item

\* the lookup with order_by("completed_date"): the oldest completed row
last_maintenance_oldest(tbl, sch, a) ==
    LET S == {it \in BagToSet(tbl) :
                MatchesSchedule(it, sch, a) /\ it.is_completed}
    IN IF S = {} THEN NoTime
       ELSE LET it == CHOOSE x \in S :
                        \A y \in S : y.completed_date >= x.completed_date
            IN it.completed_date

\* ....filter(..., is_completed=True).order_by("-completed_date").first(), as
\* the completed_date of the row found, NoTime when there is none
last_maintenance(tbl, sch, a) ==
    LET S == {it \in BagToSet(tbl) :
                MatchesSchedule(it, sch, a) /\ it.is_completed}
    IN IF S = {} THEN NoTime
       ELSE LET it == CHOOSE x \in S :
                        \A y \in S : y.completed_date <= x.completed_date
            IN it.completed_date

\* check_trigger_conditions with the advance notice of the schedule in place
\* of the fixed margin of the flight-hours trigger
check_trigger_conditions_schedule_margin(sch, a, ac, tbl, day) ==
    LET last == last_maintenance(tbl, sch, a)
        current_hours == ac[a].current_flight_hours
    IN
    IF ~sch.is_active
    THEN [triggered |-> FALSE, reason |-> "Schedule is inactive"]
    ELSE IF /\ sch.schedule_type = "calendar"
            /\ sch.calendar_interval_days # 0
            /\ last # NoTime
            /\ day - last >=
                 sch.calendar_interval_days - sch.advance_notice_days
    THEN [triggered |-> TRUE, reason |-> "Calendar trigger: days since last"]
    ELSE IF /\ sch.schedule_type = "calendar"
            /\ sch.calendar_interval_days # 0
            /\ last = NoTime
    THEN [triggered |-> TRUE,
          reason |-> "Calendar trigger: No previous maintenance recorded"]
    ELSE IF /\ sch.schedule_type = "flight_hours"
            /\ sch.flight_hours_interval # 0
            /\ current_hours >= sch.flight_hours_interval - sch.advance_notice_days
    THEN [triggered |-> TRUE,
          reason |-> IF last # NoTime
                     THEN "Flight hours trigger: hours since last"
                     ELSE "Flight hours trigger: Initial interval reached"]
    ELSE [triggered |-> FALSE, reason |-> "No trigger conditions met"]

\* F2MaintenanceSchedule.check_trigger_conditions
check_trigger_conditions(sch, a, ac, tbl, day) ==
    LET last == last_maintenance(tbl, sch, a)
        current_hours == ac[a].current_flight_hours
    IN
    IF ~sch.is_active
    THEN [triggered |-> FALSE, reason |-> "Schedule is inactive"]
    ELSE IF /\ sch.schedule_type = "calendar"
            /\ sch.calendar_interval_days # 0
            /\ last # NoTime
            /\ day - last >=
                 sch.calendar_interval_days - sch.advance_notice_days
    THEN [triggered |-> TRUE, reason |-> "Calendar trigger: days since last"]
    ELSE IF /\ sch.schedule_type = "calendar"
            /\ sch.calendar_interval_days # 0
            /\ last = NoTime
    THEN [triggered |-> TRUE,
          reason |-> "Calendar trigger: No previous maintenance recorded"]
    ELSE IF /\ sch.schedule_type = "flight_hours"
            /\ sch.flight_hours_interval # 0
            /\ current_hours >= sch.flight_hours_interval - FlightHoursAdvance
    THEN [triggered |-> TRUE,
          reason |-> IF last # NoTime
                     THEN "Flight hours trigger: hours since last"
                     ELSE "Flight hours trigger: Initial interval reached"]
    ELSE [triggered |-> FALSE, reason |-> "No trigger conditions met"]

\* F2MaintenanceSchedule.clean: whether the configuration is accepted
schedule_clean(sch) ==
    /\ ~(sch.schedule_type = "calendar" /\ sch.calendar_interval_days = 0)
    /\ ~(sch.schedule_type = "flight_hours" /\ sch.flight_hours_interval = 0)
    /\ ~(/\ sch.schedule_type = "calendar"
         /\ sch.calendar_interval_days # 0
         /\ sch.advance_notice_days >= sch.calendar_interval_days)

\* generate_maintenance_requirement without the update of the counter
generate_maintenance_requirement_uncounted(db, s, day) ==
    LET sch == db.schedules[s]
        a == sch.aircraft
        n == db.headers[a]
    IN
    IF ~sch.auto_generate_required
    THEN [db |-> db, raised |-> FALSE, generated |-> FALSE]
    ELSE IF n > 1
    THEN [db |-> db, raised |-> TRUE, generated |-> FALSE]
    ELSE
    LET hdrs == IF n = 0 THEN [db.headers EXCEPT ![a] = 1] ELSE db.headers
        row == [aircraft |-> a, item |-> sch.maintenance_item,
                due |-> day + sch.advance_notice_days,
                completed_date |-> NoTime,
                completed_by_name |-> "", completed_by_arn |-> <<>>,
                is_completed |-> FALSE]
        sch1 == [sch EXCEPT !.last_generated_date = day]
    IN [db |-> [items |-> db.items (+) SetToBag({row}), headers |-> hdrs,
                schedules |-> [db.schedules EXCEPT ![s] = sch1]],
        raised |-> FALSE, generated |-> TRUE]

\* F2MaintenanceSchedule.generate_maintenance_requirement on the database
\* db = [items, headers, schedules]: the database when the call returns or
\* raises.  RPASTechnicalLogPartA.objects.get_or_create raises
\* MultipleObjectsReturned when the aircraft has several entries of today.
\* The "[Trigger: ...]" suffix of the description is left out of the row.
generate_maintenance_requirement(db, s, day) ==
    LET sch == db.schedules[s]
        a == sch.aircraft
        n == db.headers[a]
    IN
    IF ~sch.auto_generate_required
    THEN [db |-> db, raised |-> FALSE, generated |-> FALSE]
    ELSE IF n > 1
    THEN [db |-> db, raised |-> TRUE, generated |-> FALSE]
    ELSE
    LET hdrs == IF n = 0 THEN [db.headers EXCEPT ![a] = 1] ELSE db.headers
        due_date ==
          IF sch.schedule_type = "calendar" /\ sch.calendar_interval_days # 0
          THEN day + sch.advance_notice_days
          ELSE IF sch.schedule_type = "flight_hours"
          THEN day + sch.advance_notice_days
          ELSE day
        row == [aircraft |-> a, item |-> sch.maintenance_item,
                due |-> due_date, completed_date |-> NoTime,
                completed_by_name |-> "", completed_by_arn |-> <<>>,
                is_completed |-> FALSE]
        tbl == db.items (+) SetToBag({row})
        sch1 == [sch EXCEPT !.total_generated_items = @ + 1,
                            !.last_generated_date = day]
    IN
    IF ~schedule_clean(sch1)
    THEN [db |-> [db EXCEPT !.items = tbl, !.headers = hdrs],
          raised |-> TRUE, generated |-> FALSE]
    ELSE [db |-> [items |-> tbl, headers |-> hdrs,
                  schedules |-> [db.schedules EXCEPT ![s] = sch1]],
          raised |-> FALSE, generated |-> TRUE]

\* the loop of scan_all_applicable_aircraft over the applicable aircraft
RECURSIVE ScanAircraft(_, _, _, _, _, _)
ScanAircraft(acc, s, applicable, i, ac, day) ==
    IF acc.raised \/ i > Len(applicable) THEN acc
    ELSE
    LET a == applicable[i]
        sch == acc.db.schedules[s]
        trig == check_trigger_conditions(sch, a, ac, acc.db.items, day)
        g == generate_maintenance_requirement(acc.db, s, day)
        next ==
          IF ~trig.triggered
          THEN [acc EXCEPT
                  !.results = Append(@, [aircraft |-> a, triggered |-> FALSE,
                                         reason |-> trig.reason,
                                         requirement_generated |-> FALSE])]
          ELSE IF g.raised
          THEN [acc EXCEPT !.db = g.db, !.raised = TRUE]
          ELSE [db |-> g.db, raised |-> FALSE,
                results |-> Append(acc.results,
                                   [aircraft |-> a, triggered |-> TRUE,
                                    reason |-> trig.reason,
                                    requirement_generated |-> g.generated])]
    IN ScanAircraft(next, s, applicable, i + 1, ac, day)

\* F2MaintenanceSchedule.scan_all_applicable_aircraft: no try/except
scan_all_applicable_aircraft(db, s, ac, day) ==
    ScanAircraft([db |-> db, raised |-> FALSE, results |-> <<>>], s,
                 get_applicable_aircraft(db.schedules[s], ac), 1, ac, day)

\* the number of entries of a scan that generated a requirement
RECURSIVE CountGenerated(_, _)
CountGenerated(rs, i) ==
    IF i > Len(rs) THEN 0
    ELSE (IF rs[i].requirement_generated THEN 1 ELSE 0)
         + CountGenerated(rs, i + 1)

\* the loop of run_all_active_schedules over the active schedules
RECURSIVE ScanSchedules(_, _, _, _, _)
ScanSchedules(acc, active, i, ac, day) ==
    IF acc.raised \/ i > Len(active) THEN acc
    ELSE
    LET s == active[i]
        r == scan_all_applicable_aircraft(acc.db, s, ac, day)
        next ==
          IF r.raised
          THEN [acc EXCEPT !.db = r.db, !.raised = TRUE]
          ELSE [db |-> r.db, raised |-> FALSE,
                all_results |->
                  Append(acc.all_results,
                         [schedule |-> s, results |-> r.results,
                          aircraft_scanned |-> Len(r.results),
                          requirements_generated |->
                            CountGenerated(r.results, 1)])]
    IN ScanSchedules(next, active, i + 1, ac, day)

\* F2MaintenanceSchedule.objects.filter(is_active=True), in Meta.ordering
active_schedules(tbl) ==
    FilterSeq(ScheduleOrder, {s \in Schedules : tbl[s].is_active}, 1)

\* F2MaintenanceSchedule.run_all_active_schedules: no try/except
run_all_active_schedules(db, ac, day) ==
    ScanSchedules([db |-> db, raised |-> FALSE, all_results |-> <<>>],
                  active_schedules(db.schedules), 1, ac, day)

\* F2MaintenanceRequired.completion_valid: all() of the three fields.  A name
\* is a string and an ARN a sequence of characters; the empty ones are falsy.
completion_valid(row) ==
    /\ row.completed_date # NoTime
    /\ row.completed_by_name # ""
    /\ row.completed_by_arn # <<>>

\* F2MaintenanceRequired.clean on an instance: whether it raises, and the
\* instance after it (is_overdue is not part of the rows)
item_clean(row) ==
    LET some == \/ row.completed_date # NoTime
                \/ row.completed_by_name # ""
                \/ row.completed_by_arn # <<>>
        partial_completion == some /\ ~completion_valid(row)
        row1 == IF completion_valid(row) /\ ~row.is_completed
                THEN [row EXCEPT !.is_completed = TRUE] ELSE row
    IN IF partial_completion THEN [raised |-> TRUE, row |-> row]
       ELSE IF row1.completed_by_arn # <<>> /\ Len(row1.completed_by_arn) < 6
       THEN [raised |-> TRUE, row |-> row1]
       ELSE [raised |-> FALSE, row |-> row1]

\* F2MaintenanceRequired.save of the instance `new` loaded from the stored
\* row `old`: clean(), then the row is written
item_save(tbl, old, new) ==
    LET c == item_clean(new)
    IN IF c.raised THEN [raised |-> TRUE, tbl |-> tbl]
       ELSE [raised |-> FALSE, tbl |-> SaveRow(tbl, old, c.row)]

\* F2MaintenanceRequired.mark_completed(completed_date, completed_by_name,
\* completed_by_arn) on the instance loaded from the stored row
mark_completed(tbl, row, completed_date, name, arn) ==
    LET row1 == [row EXCEPT !.completed_date = completed_date,
                            !.completed_by_name = name,
                            !.completed_by_arn = arn]
    IN IF ~completion_valid(row1) THEN [raised |-> TRUE, tbl |-> tbl]
       ELSE item_save(tbl, row, [row1 EXCEPT !.is_completed = TRUE])

NoReport ==
    [op |-> "none", raised |-> FALSE, schedule |-> "none",
     results |-> <<>>, all_results |-> <<>>]

Database == [items |-> items, headers |-> headers, schedules |-> schedules]

\* ------------------------------------------------------------ risk register
\* RiskCategory.default_likelihood_modifier and default_consequence_modifier
\* are decimals with two places; they are written in hundredths
ModifierScale == 100

\* the modifiers considered, within the validators' range 0.10 .. 2.00
Modifiers == {10, 50, 99, 100, 200}

\* the values a caller gives to the four likelihood and consequence fields:
\* the choices 1..5, and 0, which a PositiveSmallIntegerField stores and
\* save() does not reject
Levels == 0 .. 5

\* assessment dates, in days since 1 January: 1 January and 1 March
AssessmentDates == {0, 59}

NoRisk == [risk_number |-> -1]

\* the operator's aircraft with is_serviceable = True, in queryset order
ServiceableAircraft == <<"A1">>

\* RiskRegister.calculate_risk_rating.  The adjusted values are in
\* hundredths, so risk_score is in ten-thousandths.
calculate_risk_rating_strict(cat, likelihood, consequence) ==
    LET adjusted_likelihood == likelihood * cat.default_likelihood_modifier
        adjusted_consequence == consequence * cat.default_consequence_modifier
        risk_score == adjusted_likelihood * adjusted_consequence
        unit == ModifierScale * ModifierScale
    IN IF risk_score > 20 * unit THEN "extreme"
       ELSE IF risk_score > 15 * unit THEN "high"
       ELSE IF risk_score > 8 * unit THEN "medium"
       ELSE IF risk_score > 3 * unit THEN "low"
       ELSE "negligible"

calculate_risk_rating(cat, likelihood, consequence) ==
    LET adjusted_likelihood == likelihood * cat.default_likelihood_modifier
        adjusted_consequence == consequence * cat.default_consequence_modifier
        risk_score == adjusted_likelihood * adjusted_consequence
        unit == ModifierScale * ModifierScale
    IN IF risk_score >= 20 * unit THEN "extreme"
       ELSE IF risk_score >= 15 * unit THEN "high"
       ELSE IF risk_score >= 8 * unit THEN "medium"
       ELSE IF risk_score >= 3 * unit THEN "low"
       ELSE "negligible"

\* update_risk_ratings with the two assessments exchanged
update_risk_ratings_exchanged(e, cat) ==
    [e EXCEPT
       !.inherent_risk_rating =
          calculate_risk_rating(cat, e.residual_likelihood,
                                e.residual_consequence),
       !.residual_risk_rating =
          calculate_risk_rating(cat, e.inherent_likelihood,
                                e.inherent_consequence)]

\* RiskRegister.update_risk_ratings on the instance e
update_risk_ratings(e, cat) ==
    [e EXCEPT
       !.inherent_risk_rating =
          calculate_risk_rating(cat, e.inherent_likelihood,
                                e.inherent_consequence),
       !.residual_risk_rating =
          calculate_risk_rating(cat, e.residual_likelihood,
                                e.residual_consequence)]

\* RiskRegister.control_effectiveness.  The value is the fraction num / den
\* (den > 0); the code computes it in floating point.
control_effectiveness_unclamped(e) ==
    LET inherent_score == e.inherent_likelihood * e.inherent_consequence
        residual_score == e.residual_likelihood * e.residual_consequence
    IN IF inherent_score = 0 THEN [num |-> 0, den |-> 1]
       ELSE [num |-> (inherent_score - residual_score) * 100,
             den |-> inherent_score]

control_effectiveness(e) ==
    LET inherent_score == e.inherent_likelihood * e.inherent_consequence
        residual_score == e.residual_likelihood * e.residual_consequence
        reduction == [num |-> (inherent_score - residual_score) * 100,
                      den |-> inherent_score]
    IN IF inherent_score = 0 THEN [num |-> 0, den |-> 1]
       ELSE IF reduction.num > 100 * reduction.den
       THEN [num |-> 100, den |-> 1]
       ELSE IF reduction.num < 0 THEN [num |-> 0, den |-> 1]
       ELSE reduction

\* RiskRegister.f2_maintenance_trigger
f2_maintenance_trigger(e, cat) ==
    /\ e.f2_integration_enabled
    /\ cat.code \in {"AO", "AC", "MAINT"}
    /\ e.residual_risk_rating \in {"high", "extreme"}
    /\ e.status = "open"

\* RiskRegister.generate_risk_number.  A risk number is written as its
\* sequence number, 0 for the empty string; the register holds no other risk
\* of the category, so last_risk is None and the new sequence number is 1.
generate_risk_number(e) ==
    IF e.risk_number # 0 THEN e ELSE [e EXCEPT !.risk_number = 1]

\* RiskRegister.schedule_next_review(months=12)
schedule_next_review(e) ==
    LET review_intervals == [extreme |-> 3, high |-> 6, medium |-> 12,
                             low |-> 24, negligible |-> 36]
        interval == IF e.residual_risk_rating \in DOMAIN review_intervals
                    THEN review_intervals[e.residual_risk_rating] ELSE 12
    IN [e EXCEPT !.review_date = e.assessment_date + interval * 30]

\* the loop of RiskRegister.trigger_f2_maintenance over the aircraft
RECURSIVE TriggerAircraft(_, _, _)
TriggerAircraft(acc, i, day) ==
    IF acc.raised \/ i > Len(ServiceableAircraft) THEN acc
    ELSE
    LET a == ServiceableAircraft[i]
        n == acc.headers[a]
        row == [aircraft |-> a, item |-> "SAFETY RISK MITIGATION",
                due |-> day + 7, completed_date |-> NoTime,
                completed_by_name |-> "", completed_by_arn |-> <<>>,
                is_completed |-> FALSE]
    IN IF n > 1 THEN [acc EXCEPT !.raised = TRUE]
       ELSE TriggerAircraft(
              [raised |-> FALSE,
               headers |-> IF n = 0 THEN [acc.headers EXCEPT ![a] = 1]
                           ELSE acc.headers,
               items |-> acc.items (+) SetToBag({row})],
              i + 1, day)

\* RiskRegister.trigger_f2_maintenance
trigger_f2_maintenance(e, cat, tbl, hdrs, day) ==
    IF ~f2_maintenance_trigger(e, cat)
    THEN [raised |-> FALSE, headers |-> hdrs, items |-> tbl]
    ELSE TriggerAircraft([raised |-> FALSE, headers |-> hdrs, items |-> tbl],
                         1, day)

\* RiskRegister.clean on the instance e: whether it raises, and the instance
\* after it
risk_clean_unchecked(e) ==
    [raised |-> FALSE,
     entry |-> IF e.review_date = NoTime
               THEN [e EXCEPT !.review_date = e.assessment_date + 365]
               ELSE e]

risk_clean(e) ==
    LET inherent_score == e.inherent_likelihood * e.inherent_consequence
        residual_score == e.residual_likelihood * e.residual_consequence
    IN IF residual_score > inherent_score
       THEN [raised |-> TRUE, entry |-> e]
       ELSE [raised |-> FALSE,
             entry |-> IF e.review_date = NoTime
                       THEN [e EXCEPT !.review_date = e.assessment_date + 365]
                       ELSE e]

\* RiskRegister.save on the instance e: the error raised, the instance after
\* the call, and the tables after it
risk_save(e, cat, reg, tbl, hdrs, day) ==
    LET e1 == IF e.risk_number = 0 THEN generate_risk_number(e) ELSE e
        e2 == update_risk_ratings(e1, cat)
        c == risk_clean(e2)
        t == trigger_f2_maintenance(c.entry, cat, tbl, hdrs, day)
    IN IF c.raised
       THEN [error |-> "ValidationError", entry |-> c.entry,
             register |-> reg, items |-> tbl, headers |-> hdrs]
       ELSE [error |-> IF t.raised THEN "MultipleObjectsReturned"
                       ELSE "none",
             entry |-> c.entry, register |-> c.entry,
             items |-> t.items, headers |-> t.headers]

NoOutcome == [op |-> "none"]

IdleRisk ==
    /\ category = [code |-> "AO", default_likelihood_modifier |-> 100,
                   default_consequence_modifier |-> 100]
    /\ entry = NoRisk
    /\ register = NoRisk
    /\ outcome = NoOutcome

\* ------------------------------------------------------ overlapping scans
\* Two callers of check_object_compliance(obj, rules=[rule]) on the same
\* object and rule, each at its own line of the loop body.
Scans == {"scan1", "scan2"}
ScannedObject == [content_type |-> "aircraft", object_id |-> 1]
ScannedRule == "R1"

NoCheck == [rule |-> "none"]

IdleScan == [pc |-> "idle", check |-> NoCheck, status |-> GREEN, seq |-> 0]

\* Model.save() of an instance that has a primary key: an UPDATE of the row
\* with that key (each key has at most one row: unique_together), with
\* last_checked = now (auto_now)
SaveByPk(tbl, row, t) ==
    LET stored == {c \in Rows(tbl) : KeyOf(c) = KeyOf(row)}
    IN (tbl (-) SetToBag(stored))
         (+) SetToBag({[row EXCEPT !.last_checked = t]})

\* --------------------------------------------------------- flight operation
\* FlightOperation.STATUS_CHOICES
STATUS_CHOICES ==
    {"planned", "assessment_required", "jsa_required",
     "authorization_pending", "approved", "in_progress", "completed",
     "cancelled", "suspended"}

\* FlightOperation.can_proceed_with_crp_authorization: all eleven answers of
\* the preliminary assessment are yes; op.passed_checks counts the yes answers
TotalChecks == 11
can_proceed_with_crp_authorization(op) == op.passed_checks = TotalChecks

\* each method gives whether it raised and the operation after the call
authorize_operation(op) ==
    [raised |-> FALSE,
     op |-> [op EXCEPT !.status = IF can_proceed_with_crp_authorization(op)
                                  THEN "approved" ELSE "jsa_required"]]

start_operation(op) ==
    IF op.status \in {"approved", "authorized"}
    THEN [raised |-> FALSE, op |-> [op EXCEPT !.status = "in_progress"]]
    ELSE [raised |-> TRUE, op |-> op]

complete_operation(op) ==
    IF op.status = "in_progress"
    THEN [raised |-> FALSE, op |-> [op EXCEPT !.status = "completed"]]
    ELSE [raised |-> TRUE, op |-> op]

cancel_operation(op) ==
    IF op.status \in {"planned", "approved", "authorized"}
    THEN [raised |-> FALSE, op |-> [op EXCEPT !.status = "cancelled"]]
    ELSE [raised |-> TRUE, op |-> op]

NoFlightCall == [method |-> "none", raised |-> FALSE, before |-> "none"]

\* ------------------------------------------------- aircraft registrations
\* The registrations of one aircraft, as the list of its AircraftRegistration
\* rows in the order of their creation.  Dates are counted in months.
RegistrationDates == {0, 6, 12}
RegistrationNumbers == {"VH-ABC", "ABC"}
ValidityMonths == 12

\* registration_number.startswith(("VH-", "N-", "24-"))
HasRegistrationPrefix(number) == number \in {"VH-ABC"}

\* AircraftRegistration.calculate_expiry_date
calculate_expiry_date(reg) == reg.current_registration_date + ValidityMonths

\* AircraftRegistration.clean: whether it raises, and the instance after it.
\* A date of None cannot be compared: the comparison raises TypeError.
registration_clean(reg) ==
    LET reg1 == IF reg.current_registration_expiry = NoTime
                THEN [reg EXCEPT !.current_registration_expiry =
                                    calculate_expiry_date(reg)]
                ELSE reg
    IN IF reg.current_registration_date = NoTime
       THEN [raised |-> TRUE, reg |-> reg]
       ELSE IF reg1.current_registration_expiry
                 <= reg1.current_registration_date
       THEN [raised |-> TRUE, reg |-> reg1]
       ELSE IF ~HasRegistrationPrefix(reg1.registration_number)
       THEN [raised |-> TRUE, reg |-> reg1]
       ELSE [raised |-> FALSE, reg |-> reg1]

\* AircraftRegistration.objects.create(...): save() of a new instance, which
\* the database refuses when the aircraft has a registration of that date
\* (unique_together)
registration_create(regs, reg) ==
    LET c == registration_clean(reg)
    IN IF c.raised THEN [raised |-> TRUE, regs |-> regs]
       ELSE IF \E i \in 1 .. Len(regs) :
                 regs[i].current_registration_date
                   = c.reg.current_registration_date
       THEN [raised |-> TRUE, regs |-> regs]
       ELSE [raised |-> FALSE, regs |-> Append(regs, c.reg)]

\* RPASAircraft.create_initial_registration(registration_number,
\* registration_date=date)
create_initial_registration(regs, number, date) ==
    registration_create(regs,
        [registration_number |-> number,
         date_first_registered |-> date,
         current_registration_date |-> date,
         current_registration_expiry |-> NoTime,
         registration_status |-> "current",
         is_current_registration |-> TRUE])

\* AircraftRegistration.renew_registration(new_registration_date) on the
\* i-th record: the record is saved as historical, then the new record is
\* created; there is no transaction around the two writes
registration_renew(regs, i, new_registration_date) ==
    LET self == [regs[i] EXCEPT !.is_current_registration = FALSE,
                                !.registration_status = "historical"]
        c == registration_clean(self)
        regs1 == [regs EXCEPT ![i] = c.reg]
        r == registration_create(regs1,
               [registration_number |-> c.reg.registration_number,
                date_first_registered |-> c.reg.date_first_registered,
                current_registration_date |-> new_registration_date,
                current_registration_expiry |-> calculate_expiry_date(c.reg),
                registration_status |-> "current",
                is_current_registration |-> TRUE])
    IN IF c.raised THEN [raised |-> TRUE, regs |-> regs] ELSE r

\* RPASAircraft.current_registration: the index of the first record, in the
\* order of Meta.ordering (-current_registration_date; the dates of one
\* aircraft are distinct), that is flagged current with status current; 0
\* when there is none
current_registration(regs) ==
    LET S == {i \in 1 .. Len(regs) :
                /\ regs[i].is_current_registration
                /\ regs[i].registration_status = "current"}
    IN IF S = {} THEN 0
       ELSE CHOOSE i \in S :
              \A j \in S : regs[j].current_registration_date
                             <= regs[i].current_registration_date

\* RPASAircraft.renew_registration(new_registration_date)
aircraft_renew_registration(regs, new_registration_date) ==
    IF current_registration(regs) = 0
    THEN [raised |-> TRUE, regs |-> regs]
    ELSE registration_renew(regs, current_registration(regs),
                            new_registration_date)

NoRenewal == [op |-> "none", raised |-> FALSE]

\* the values of the variables of the parts that are not running
IdleExtra ==
    /\ scans = [p \in Scans |-> IdleScan]
    /\ fact = "pass"
    /\ operation = [status |-> "planned", passed_checks |-> TotalChecks,
                    last |-> NoFlightCall]
    /\ registrations = <<>>
    /\ renewal = NoRenewal

\* ------------------------------------------------------------------ Init
\* The installations considered: one object under two rules, or two objects
\* under one rule.
Installations ==
    {[objects |-> {[content_type |-> "aircraft", object_id |-> 1]},
      rules |-> {"R1", "R2"}],
     [objects |-> Objects, rules |-> {"R1"}]}

Init ==
    /\ now = 0
    /\ \E inst \in Installations :
         /\ rules = [r \in inst.rules |->
                       [severity |-> RuleSeverity[r], is_active |-> TRUE,
                        check_frequency_hours |-> 1]]
         /\ exists = [o \in Objects |-> o \in inst.objects]
    /\ checks = EmptyBag
    /\ results = NoResults
    /\ call = NoCall
    /\ today = 0
    /\ aircraft = [a \in Aircraft |->
                     [is_active |-> TRUE, current_flight_hours |-> 0]]
    /\ schedules = InitSchedules
    /\ headers = [a \in Aircraft |-> 0]
    /\ items = EmptyBag
    /\ report = NoReport
    /\ IdleRisk
    /\ IdleExtra

\* --------------------------------------------------------------- actions
\* the clock advances by one hour
Tick ==
    /\ results = NoResults
    /\ now < MaxClock
    /\ now' = now + 1
    /\ UNCHANGED <<rules, exists, checks, results, call>>
    /\ UNCHANGED <<mvars, rvars, xvars>>

\* administrative edit of ComplianceRule.is_active
SetRuleActive(r) ==
    /\ results = NoResults
    /\ rules' = [rules EXCEPT ![r].is_active = ~@]
    /\ UNCHANGED <<now, exists, checks, results, call>>
    /\ UNCHANGED <<mvars, rvars, xvars>>

\* administrative edit of ComplianceRule.check_frequency_hours
SetCheckFrequency(r, f) ==
    /\ results = NoResults
    /\ f # rules[r].check_frequency_hours
    /\ rules' = [rules EXCEPT ![r].check_frequency_hours = f]
    /\ UNCHANGED <<now, exists, checks, results, call>>
    /\ UNCHANGED <<mvars, rvars, xvars>>

\* an object is deleted from the object store; its checks stay behind
DeleteObject(o) ==
    /\ results = NoResults
    /\ exists[o]
    /\ exists' = [exists EXCEPT ![o] = FALSE]
    /\ UNCHANGED <<now, rules, checks, results, call>>
    /\ UNCHANGED <<mvars, rvars, xvars>>

\* compliance_engine.check_object_compliance(obj, rules=ruleSeq)
CheckObject(o, ruleSeq, verdict, fault) ==
    /\ results = NoResults
    /\ exists[o]
    /\ LET r == check_object_compliance(checks, o, ruleSeq, rules, now,
                  [x \in Rules |-> verdict[Pair(o, x)]],
                  [rule |-> fault.rule, stage |-> fault.stage])
       IN /\ checks' = r.tbl
          /\ results' =
               IF r.raised
               THEN [NoResults EXCEPT !.op = "check", !.raised = TRUE,
                                      !.object = o]
               ELSE [NoResults EXCEPT
                       !.op = "check", !.object = o,
                       !.overall_status = r.overall_status,
                       !.checks_performed = r.checks_performed,
                       !.checks_passed = r.checks_passed,
                       !.checks_failed = r.checks_failed,
                       !.rule_results = r.rule_results]
          /\ call' = [op |-> "check",
                      selected |-> {Pair(o, x) : x \in SeqToSet(ruleSeq)},
                      evaluated |-> r.evaluated,
                      failing |-> {x \in r.evaluated : verdict[x] = "fail"},
                      faulted |-> IF r.raised THEN {Pair(o, fault.rule)}
                                  ELSE {}]
    /\ UNCHANGED <<now, rules, exists>>
    /\ UNCHANGED <<mvars, rvars, xvars>>

\* compliance_engine.bulk_check_compliance(objects)
BulkCheckObjects(objs, verdict, fault) ==
    /\ results = NoResults
    /\ LET r == bulk_check_compliance(checks, objs, rules, now, verdict, fault)
       IN /\ checks' = r.tbl
          /\ results' =
               IF r.raised
               THEN [NoResults EXCEPT !.op = "bulk", !.raised = TRUE]
               ELSE [NoResults EXCEPT
                       !.op = "bulk",
                       !.total_objects = Len(objs),
                       !.compliant_objects = r.compliant_objects,
                       !.warning_objects = r.warning_objects,
                       !.non_compliant_objects = r.non_compliant_objects,
                       !.object_results = r.object_results]
          /\ call' = [op |-> "bulk",
                      selected |-> {Pair(o, x) :
                                      o \in SeqToSet(objs),
                                      x \in SeqToSet(get_applicable_rules(rules))},
                      evaluated |-> r.evaluated,
                      failing |-> {x \in r.evaluated : verdict[x] = "fail"},
                      faulted |-> IF r.raised
                                  THEN {Pair(fault.object, fault.rule)}
                                  ELSE {}]
    /\ UNCHANGED <<now, rules, exists>>
    /\ UNCHANGED <<mvars, rvars, xvars>>

\* compliance_engine.run_scheduled_compliance_checks()
RunScheduled(overdue, verdict, fault) ==
    /\ results = NoResults
    /\ LET r == run_scheduled_compliance_checks(checks, overdue, exists,
                                                rules, now, verdict, fault)
       IN /\ checks' = r.tbl
          /\ results' =
               [NoResults EXCEPT
                  !.op = "run",
                  !.overdue_checks_found = Len(overdue),
                  !.checks_completed = r.checks_completed,
                  !.checks_failed = r.checks_failed,
                  !.objects_processed = r.objects_processed]
          /\ call' = [op |-> "run",
                      selected |-> {KeyOf(overdue[i]) : i \in 1..Len(overdue)},
                      evaluated |-> r.evaluated,
                      failing |-> {x \in r.evaluated : verdict[x] = "fail"},
                      faulted |-> IF fault = NoRunFault THEN {}
                                  ELSE {Pair(fault.object, fault.rule)}]
    /\ UNCHANGED <<now, rules, exists>>
    /\ UNCHANGED <<mvars, rvars, xvars>>

\* the view renders what the engine call returned and the request ends
Respond ==
    /\ results # NoResults
    /\ results' = NoResults
    /\ call' = NoCall
    /\ UNCHANGED <<now, rules, exists, checks>>
    /\ UNCHANGED <<mvars, rvars, xvars>>

EditRuleActive == \E r \in EditedRules \cap DOMAIN rules : SetRuleActive(r)

EditCheckFrequency ==
    \E r \in EditedRules \cap DOMAIN rules, f \in 0..MaxFreq :
      SetCheckFrequency(r, f)

Delete == \E o \in Objects : DeleteObject(o)

\* a caller checks one object, with the applicable rules or a list of rules
CheckObjectCall ==
    \E o \in Objects,
       ruleSeq \in RuleLists(rules) \cup {get_applicable_rules(rules)} :
      \E verdict \in VerdictsFor({Pair(o, x) : x \in SeqToSet(ruleSeq)}),
         fault \in RunFaults({Pair(o, x) : x \in SeqToSet(ruleSeq)}) :
        CheckObject(o, ruleSeq, verdict, fault)

\* a caller checks a list of objects
BulkCheckCall ==
    \E objs \in ObjectLists(exists) :
      LET pairs == {Pair(o, x) : o \in SeqToSet(objs),
                                 x \in SeqToSet(get_applicable_rules(rules))}
      IN \E verdict \in VerdictsFor(pairs), fault \in RunFaults(pairs) :
           BulkCheckObjects(objs, verdict, fault)

\* the scheduler triggers the periodic run
RunScheduledCall ==
    \E overdue \in get_overdue_checks(checks, rules, now) :
      LET pairs == {KeyOf(c) : c \in OverdueRows(checks, rules, now)}
      IN \E verdict \in VerdictsFor(pairs), fault \in RunFaults(pairs) :
           RunScheduled(overdue, verdict, fault)

Next ==
    \/ Tick
    \/ Respond
    \/ EditRuleActive
    \/ EditCheckFrequency
    \/ Delete
    \/ CheckObjectCall
    \/ BulkCheckCall
    \/ RunScheduledCall

Spec == Init /\ [][Next]_vars

\* ------------------------------------------- grouping step: Init and actions
\* the lists of overdue checks in which one check appears a second time
RepeatedOverdueChecks(tbl, cfg, t) ==
    {Append(s, s[i]) : s \in get_overdue_checks(tbl, cfg, t),
                       i \in 1 .. Cardinality(OverdueRows(tbl, cfg, t))}

\* the run, with a list handed to the grouping step that names a check twice
RunScheduledRepeatCall ==
    \E overdue \in RepeatedOverdueChecks(checks, rules, now) :
      LET pairs == {KeyOf(c) : c \in OverdueRows(checks, rules, now)}
      IN \E verdict \in VerdictsFor(pairs), fault \in RunFaults(pairs) :
           RunScheduled(overdue, verdict, fault)

NextGrouping ==
    \/ Tick
    \/ Respond
    \/ CheckObjectCall
    \/ RunScheduledCall
    \/ RunScheduledRepeatCall

SpecGrouping == Init /\ [][NextGrouping]_vars

\* ------------------------------------------- maintenance: Init and actions
IdleMaintenance ==
    /\ today = 0
    /\ aircraft = [a \in Aircraft |->
                     [is_active |-> TRUE, current_flight_hours |-> 0]]
    /\ schedules = InitSchedules
    /\ headers = [a \in Aircraft |-> 0]
    /\ items = EmptyBag
    /\ report = NoReport

IdleCompliance ==
    /\ now = 0
    /\ rules = [r \in {"R1"} |->
                  [severity |-> RuleSeverity[r], is_active |-> TRUE,
                   check_frequency_hours |-> 1]]
    /\ exists = [o \in Objects |-> TRUE]
    /\ checks = EmptyBag
    /\ results = NoResults
    /\ call = NoCall

InitMaint == IdleMaintenance /\ IdleCompliance /\ IdleRisk /\ IdleExtra

\* ------------------------------------------ rule severities: Init and actions
\* one object under two rules, each rule with any of the three choices of
\* its severity field
InitSeverity ==
    /\ now = 0
    /\ \E sev \in [Rules -> ComplianceStatus] :
         rules = [r \in Rules |->
                    [severity |-> sev[r], is_active |-> TRUE,
                     check_frequency_hours |-> 1]]
    /\ exists = [o \in Objects |-> o.content_type = "aircraft"]
    /\ checks = EmptyBag
    /\ results = NoResults
    /\ call = NoCall
    /\ IdleMaintenance
    /\ IdleRisk
    /\ IdleExtra

NextSeverity ==
    \/ Tick
    \/ Respond
    \/ CheckObjectCall
    \/ RunScheduledCall

SpecSeverity == InitSeverity /\ [][NextSeverity]_vars

\* the date changes; no technical log entry carries the new date yet
NextDay ==
    /\ report = NoReport
    /\ today < MaxDay
    /\ today' = today + 1
    /\ headers' = [a \in Aircraft |-> 0]
    /\ UNCHANGED <<aircraft, schedules, items, report>>
    /\ UNCHANGED <<cvars, rvars, xvars>>

\* a technical log entry is filed for an aircraft (entry_date is today)
CreateLogEntry(a) ==
    /\ report = NoReport
    /\ headers[a] < MaxHeaders
    /\ headers' = [headers EXCEPT ![a] = @ + 1]
    /\ UNCHANGED <<today, aircraft, schedules, items, report>>
    /\ UNCHANGED <<cvars, rvars, xvars>>

\* an uncompleted work item is completed today
MarkCompleted(row) ==
    /\ report = NoReport
    /\ ~row.is_completed
    /\ items' = mark_completed(items, row, today, "J. Smith",
                               <<"A", "R", "N", "1", "2", "3">>).tbl
    /\ UNCHANGED <<today, aircraft, schedules, headers, report>>
    /\ UNCHANGED <<cvars, rvars, xvars>>

\* an aircraft is taken out of or put back into service
SetAircraftActive(a) ==
    /\ report = NoReport
    /\ aircraft' = [aircraft EXCEPT ![a].is_active = ~@]
    /\ UNCHANGED <<today, schedules, headers, items, report>>
    /\ UNCHANGED <<cvars, rvars, xvars>>

\* an edit of RPASAircraft.current_flight_hours after a logged flight
LogFlightHours(a) ==
    /\ report = NoReport
    /\ aircraft[a].current_flight_hours < MaxHours
    /\ aircraft' = [aircraft EXCEPT ![a].current_flight_hours = @ + 1]
    /\ UNCHANGED <<today, schedules, headers, items, report>>
    /\ UNCHANGED <<cvars, rvars, xvars>>

\* administrative edit of F2MaintenanceSchedule.is_active
SetScheduleActive(s) ==
    /\ report = NoReport
    /\ schedules' = [schedules EXCEPT ![s].is_active = ~@]
    /\ UNCHANGED <<today, aircraft, headers, items, report>>
    /\ UNCHANGED <<cvars, rvars, xvars>>

\* administrative edit of F2MaintenanceSchedule.auto_generate_required
SetAutoGenerate(s) ==
    /\ report = NoReport
    /\ schedules' = [schedules EXCEPT ![s].auto_generate_required = ~@]
    /\ UNCHANGED <<today, aircraft, headers, items, report>>
    /\ UNCHANGED <<cvars, rvars, xvars>>

\* schedule.scan_all_applicable_aircraft()
ScanSchedule(s) ==
    /\ report = NoReport
    /\ BagCardinality(items) < MaxItems
    /\ LET r == scan_all_applicable_aircraft(Database, s, aircraft, today)
       IN /\ items' = r.db.items
          /\ headers' = r.db.headers
          /\ schedules' = r.db.schedules
          /\ report' = IF r.raised
                       THEN [NoReport EXCEPT !.op = "scan", !.schedule = s,
                                             !.raised = TRUE]
                       ELSE [NoReport EXCEPT !.op = "scan", !.schedule = s,
                                             !.results = r.results]
    /\ UNCHANGED <<today, aircraft>>
    /\ UNCHANGED <<cvars, rvars, xvars>>

\* F2MaintenanceSchedule.run_all_active_schedules()
RunAllActiveSchedules ==
    /\ report = NoReport
    /\ BagCardinality(items) < MaxItems
    /\ LET r == run_all_active_schedules(Database, aircraft, today)
       IN /\ items' = r.db.items
          /\ headers' = r.db.headers
          /\ schedules' = r.db.schedules
          /\ report' = IF r.raised
                       THEN [NoReport EXCEPT !.op = "run_all",
                                             !.raised = TRUE]
                       ELSE [NoReport EXCEPT !.op = "run_all",
                                             !.all_results = r.all_results]
    /\ UNCHANGED <<today, aircraft>>
    /\ UNCHANGED <<cvars, rvars, xvars>>

\* the caller has consumed what the scan returned
RespondMaint ==
    /\ report # NoReport
    /\ report' = NoReport
    /\ UNCHANGED <<today, aircraft, schedules, headers, items>>
    /\ UNCHANGED <<cvars, rvars, xvars>>

FileLogEntry == \E a \in LoggedAircraft : CreateLogEntry(a)

CompleteItem == \E row \in BagToSet(items) : MarkCompleted(row)

EditAircraftActive == \E a \in GroundedAircraft : SetAircraftActive(a)

Fly == \E a \in FlownAircraft : LogFlightHours(a)

EditScheduleActive == \E s \in EditedSchedules : SetScheduleActive(s)

EditAutoGenerate == \E s \in AutoGenerateEdited : SetAutoGenerate(s)

ScanScheduleCall == \E s \in Schedules : ScanSchedule(s)

NextMaint ==
    \/ NextDay
    \/ RespondMaint
    \/ FileLogEntry
    \/ CompleteItem
    \/ EditAircraftActive
    \/ Fly
    \/ EditScheduleActive
    \/ EditAutoGenerate
    \/ ScanScheduleCall
    \/ RunAllActiveSchedules

SpecMaint == InitMaint /\ [][NextMaint]_vars

\* ------------------------------------- work item completion: Init and actions
\* the values a caller may give to the completion fields: no date or today,
\* no name or a name, no ARN, an ARN of two characters or one of six
CompletionDates == {NoTime, today}
CompletionNames == {"", "J. Smith"}
CompletionArns == {<<>>, <<"A", "1">>, <<"A", "R", "N", "1", "2", "3">>}

\* The state after one run_all_active_schedules() on day 0 that generated an
\* item for each schedule (aircraft A2 has flown one hour).
InitItem ==
    LET ac == [a \in Aircraft |->
                 [is_active |-> TRUE,
                  current_flight_hours |-> IF a \in FlownAircraft
                                           THEN 1 ELSE 0]]
        r == run_all_active_schedules(
               [items |-> EmptyBag, headers |-> [a \in Aircraft |-> 0],
                schedules |-> InitSchedules], ac, 0)
    IN /\ IdleCompliance
       /\ IdleRisk
       /\ IdleExtra
       /\ today = 0
       /\ aircraft = ac
       /\ schedules = r.db.schedules
       /\ headers = r.db.headers
       /\ items = r.db.items
       /\ report = NoReport

\* item.mark_completed(completed_date, completed_by_name, completed_by_arn)
MarkCompletedWith(row, completed_date, name, arn) ==
    /\ report = NoReport
    /\ LET r == mark_completed(items, row, completed_date, name, arn)
       IN /\ items' = r.tbl
          /\ report' = [NoReport EXCEPT !.op = "mark_completed",
                                        !.raised = r.raised]
    /\ UNCHANGED <<today, aircraft, schedules, headers>>
    /\ UNCHANGED <<cvars, rvars, xvars>>

\* the completion fields and is_completed of a loaded item are edited and
\* the item is saved: item.save()
SaveItem(row, completed_date, name, arn, completed) ==
    /\ report = NoReport
    /\ LET r == item_save(items, row,
                          [row EXCEPT !.completed_date = completed_date,
                                      !.completed_by_name = name,
                                      !.completed_by_arn = arn,
                                      !.is_completed = completed])
       IN /\ items' = r.tbl
          /\ report' = [NoReport EXCEPT !.op = "save", !.raised = r.raised]
    /\ UNCHANGED <<today, aircraft, schedules, headers>>
    /\ UNCHANGED <<cvars, rvars, xvars>>

MarkCompletedCall ==
    \E row \in BagToSet(items), d \in CompletionDates,
       n \in CompletionNames, arn \in CompletionArns :
      MarkCompletedWith(row, d, n, arn)

SaveItemCall ==
    \E row \in BagToSet(items) :
      \E d \in CompletionDates \cup {row.completed_date},
         n \in CompletionNames, arn \in CompletionArns, c \in BOOLEAN :
        SaveItem(row, d, n, arn, c)

NextItem ==
    \/ NextDay
    \/ RespondMaint
    \/ MarkCompletedCall
    \/ SaveItemCall

SpecItem == InitItem /\ [][NextItem]_vars

\* --------------------------------------------- risk register: Init and actions
\* an entry a caller has filled in and not saved yet: no risk number, no
\* ratings, no review date
NewEntry(il, ic, rl, rc, d) ==
    [risk_number |-> 0,
     inherent_likelihood |-> il, inherent_consequence |-> ic,
     residual_likelihood |-> rl, residual_consequence |-> rc,
     inherent_risk_rating |-> "", residual_risk_rating |-> "",
     status |-> "open", assessment_date |-> d,
     review_date |-> NoTime, f2_integration_enabled |-> TRUE]

\* the levels and modifiers of the entries that are saved
SavedLevels == {0, 1, 3, 5}
SavedModifiers == {50, 100, 200}

InitRisk ==
    /\ IdleCompliance
    /\ IdleMaintenance
    /\ IdleExtra
    /\ \E lm \in SavedModifiers, cm \in SavedModifiers :
         category = [code |-> "AO", default_likelihood_modifier |-> lm,
                     default_consequence_modifier |-> cm]
    /\ \E il \in SavedLevels, ic \in SavedLevels,
          rl \in SavedLevels, rc \in SavedLevels, d \in AssessmentDates :
         entry = NewEntry(il, ic, rl, rc, d)
    /\ register = NoRisk
    /\ outcome = NoOutcome

\* entry.save()
SaveEntry ==
    /\ outcome = NoOutcome
    /\ BagCardinality(items) < MaxItems
    /\ LET r == risk_save(entry, category, register, items, headers, today)
       IN /\ entry' = r.entry
          /\ register' = r.register
          /\ items' = r.items
          /\ headers' = r.headers
          /\ outcome' = [op |-> "save", error |-> r.error,
                         before |-> [entry |-> entry, register |-> register,
                                     items |-> items]]
    /\ UNCHANGED <<category, today, aircraft, schedules, report>>
    /\ UNCHANGED <<cvars, xvars>>

\* entry.schedule_next_review()
ScheduleNextReview ==
    /\ outcome = NoOutcome
    /\ entry' = schedule_next_review(entry)
    /\ outcome' = [op |-> "schedule_next_review", today |-> today,
                   before |-> [entry |-> entry]]
    /\ UNCHANGED <<category, register>>
    /\ UNCHANGED <<cvars, mvars, xvars>>

\* the caller assesses the residual risk again and finds it at the top of the
\* matrix; the instance is not saved by this
ReassessResidual ==
    /\ outcome = NoOutcome
    /\ <<entry.residual_likelihood, entry.residual_consequence>> # <<5, 5>>
    /\ entry' = [entry EXCEPT !.residual_likelihood = 5,
                              !.residual_consequence = 5]
    /\ UNCHANGED <<category, register, outcome>>
    /\ UNCHANGED <<cvars, mvars, xvars>>

\* the caller has seen the outcome
RespondRisk ==
    /\ outcome # NoOutcome
    /\ outcome' = NoOutcome
    /\ UNCHANGED <<category, entry, register>>
    /\ UNCHANGED <<cvars, mvars, xvars>>

NextRisk ==
    \/ NextDay
    \/ SaveEntry
    \/ ScheduleNextReview
    \/ ReassessResidual
    \/ RespondRisk

SpecRisk == InitRisk /\ [][NextRisk]_vars

\* ------------------------------------------ risk ratings: Init and actions
\* every level in each of the four fields, under every pair of modifiers
InitRating ==
    /\ IdleCompliance
    /\ IdleMaintenance
    /\ IdleExtra
    /\ \E lm \in Modifiers, cm \in Modifiers :
         category = [code |-> "AO", default_likelihood_modifier |-> lm,
                     default_consequence_modifier |-> cm]
    /\ \E il \in Levels, ic \in Levels, rl \in Levels, rc \in Levels :
         entry = NewEntry(il, ic, rl, rc, 0)
    /\ register = NoRisk
    /\ outcome = NoOutcome

\* entry.update_risk_ratings()
UpdateRiskRatings ==
    /\ outcome = NoOutcome
    /\ entry' = update_risk_ratings(entry, category)
    /\ outcome' = [op |-> "update_risk_ratings"]
    /\ UNCHANGED <<category, register>>
    /\ UNCHANGED <<cvars, mvars, xvars>>

\* entry.control_effectiveness is read
ReadControlEffectiveness ==
    /\ outcome = NoOutcome
    /\ outcome' = [op |-> "control_effectiveness",
                   value |-> control_effectiveness(entry)]
    /\ UNCHANGED <<category, entry, register>>
    /\ UNCHANGED <<cvars, mvars, xvars>>

NextRating ==
    \/ UpdateRiskRatings
    \/ ReadControlEffectiveness
    \/ RespondRisk

SpecRating == InitRating /\ [][NextRating]_vars

\* ------------------------------------------ overlapping scans: Init and actions
Others == <<mvars, rvars, operation, registrations, renewal>>

InitScan ==
    /\ IdleCompliance
    /\ IdleMaintenance
    /\ IdleRisk
    /\ IdleExtra

\* a caller enters check_object_compliance(obj, rules=[rule])
StartScan(p) ==
    /\ scans[p].pc = "idle"
    /\ scans' = [scans EXCEPT ![p].pc = "get_or_create"]
    /\ UNCHANGED <<cvars, fact, Others>>

\* get_or_create, its get(): the row of the key if there is one
GetCheck(p) ==
    /\ scans[p].pc = "get_or_create"
    /\ LET found == get_or_create_lookup(checks, ScannedObject, ScannedRule)
       IN scans' = IF found = {}
                   THEN [scans EXCEPT ![p].pc = "create"]
                   ELSE [scans EXCEPT ![p].pc = "evaluate",
                                      ![p].check = CHOOSE c \in found : TRUE]
    /\ UNCHANGED <<cvars, fact, Others>>

\* get_or_create, its create(): the row is inserted with the defaults; if the
\* key has a row by now, the IntegrityError is caught and the row is read
CreateCheck(p) ==
    /\ scans[p].pc = "create"
    /\ LET found == get_or_create_lookup(checks, ScannedObject, ScannedRule)
           fresh == [content_type |-> ScannedObject.content_type,
                     object_id |-> ScannedObject.object_id,
                     rule |-> ScannedRule,
                     status |-> GREEN, details |-> NoTime,
                     last_checked |-> now, next_check_due |-> NoTime]
       IN IF found = {}
          THEN /\ checks' = checks (+) SetToBag({fresh})
               /\ scans' = [scans EXCEPT ![p].pc = "evaluate",
                                         ![p].check = fresh]
          ELSE /\ checks' = checks
               /\ scans' = [scans EXCEPT ![p].pc = "evaluate",
                                         ![p].check = CHOOSE c \in found : TRUE]
    /\ UNCHANGED <<now, rules, exists, results, call, fact, Others>>

\* _evaluate_rule on the object as it is now, and the assignments to the
\* instance (status, details)
EvaluateCheck(p) ==
    /\ scans[p].pc = "evaluate"
    /\ LET status == evaluate_against_object(rules, ScannedRule, fact)
           n == Cardinality({q \in Scans : scans[q].seq > 0})
       IN scans' = [scans EXCEPT
                      ![p].pc = "update_next_check_due",
                      ![p].status = status,
                      ![p].seq = n + 1,
                      ![p].check = [@ EXCEPT !.status = status,
                                             !.details = now]]
    /\ UNCHANGED <<cvars, fact, Others>>

\* check.update_next_check_due(), with its save()
UpdateCheck(p) ==
    /\ scans[p].pc = "update_next_check_due"
    /\ LET row == update_next_check_due(scans[p].check, rules, now)
       IN /\ scans' = [scans EXCEPT ![p].pc = "save", ![p].check = row]
          /\ checks' = IF SavesInUpdate(scans[p].check, rules)
                       THEN SaveByPk(checks, row, now) ELSE checks
    /\ UNCHANGED <<now, rules, exists, results, call, fact, Others>>

\* check.save()
SaveCheck(p) ==
    /\ scans[p].pc = "save"
    /\ checks' = SaveByPk(checks, scans[p].check, now)
    /\ scans' = [scans EXCEPT ![p].pc = "done"]
    /\ UNCHANGED <<now, rules, exists, results, call, fact, Others>>

\* what the rule looks at changes on the object
ObjectChanges ==
    /\ fact' = IF fact = "pass" THEN "fail" ELSE "pass"
    /\ UNCHANGED <<cvars, scans, Others>>

Start == \E p \in Scans : StartScan(p)
Get == \E p \in Scans : GetCheck(p)
Create == \E p \in Scans : CreateCheck(p)
Evaluate == \E p \in Scans : EvaluateCheck(p)
Update == \E p \in Scans : UpdateCheck(p)
Save == \E p \in Scans : SaveCheck(p)

NextScan ==
    \/ Tick
    \/ ObjectChanges
    \/ Start
    \/ Get
    \/ Create
    \/ Evaluate
    \/ Update
    \/ Save

SpecScan == InitScan /\ [][NextScan]_vars

\* ------------------------------------------ flight operation: Init and actions
\* an operation created in one of the statuses of STATUS_CHOICES, or in the
\* status "authorized" that start_operation and cancel_operation test for,
\* with all or all but one of the answers of the preliminary assessment yes
InitFlight ==
    /\ IdleCompliance
    /\ IdleMaintenance
    /\ IdleRisk
    /\ scans = [p \in Scans |-> IdleScan]
    /\ fact = "pass"
    /\ \E st \in STATUS_CHOICES \cup {"authorized"},
          n \in {TotalChecks - 1, TotalChecks} :
         operation = [status |-> st, passed_checks |-> n,
                      last |-> NoFlightCall]
    /\ registrations = <<>>
    /\ renewal = NoRenewal

\* a method of the operation is called
FlightCall(method, r) ==
    /\ operation' = [r.op EXCEPT !.last = [method |-> method,
                                           raised |-> r.raised,
                                           before |-> operation.status]]
    /\ UNCHANGED <<cvars, mvars, rvars, scans, fact, registrations, renewal>>

Authorize == FlightCall("authorize_operation", authorize_operation(operation))
StartOperation == FlightCall("start_operation", start_operation(operation))
Complete == FlightCall("complete_operation", complete_operation(operation))
Cancel == FlightCall("cancel_operation", cancel_operation(operation))

\* an answer of the preliminary assessment is changed
AnswerAssessment ==
    /\ operation' = [operation EXCEPT
                       !.passed_checks = IF @ = TotalChecks
                                         THEN TotalChecks - 1
                                         ELSE TotalChecks]
    /\ UNCHANGED <<cvars, mvars, rvars, scans, fact, registrations, renewal>>

NextFlight ==
    \/ Authorize
    \/ StartOperation
    \/ Complete
    \/ Cancel
    \/ AnswerAssessment

SpecFlight == InitFlight /\ [][NextFlight]_vars

\* ------------------------------------ aircraft registrations: Init and actions
InitRegistration ==
    /\ IdleCompliance
    /\ IdleMaintenance
    /\ IdleRisk
    /\ IdleExtra

\* aircraft.create_initial_registration(number, registration_date=date)
CreateInitial(number, date) ==
    /\ LET r == create_initial_registration(registrations, number, date)
       IN /\ registrations' = r.regs
          /\ renewal' = [op |-> "create_initial_registration",
                         raised |-> r.raised]
    /\ UNCHANGED <<cvars, mvars, rvars, scans, fact, operation>>

\* aircraft.renew_registration(new_registration_date=date)
RenewAircraft(date) ==
    /\ LET r == aircraft_renew_registration(registrations, date)
       IN /\ registrations' = r.regs
          /\ renewal' = [op |-> "RPASAircraft.renew_registration",
                         raised |-> r.raised]
    /\ UNCHANGED <<cvars, mvars, rvars, scans, fact, operation>>

\* registration.renew_registration(date) on the i-th record of the aircraft
RenewRecord(i, date) ==
    /\ LET r == registration_renew(registrations, i, date)
       IN /\ registrations' = r.regs
          /\ renewal' = [op |-> "AircraftRegistration.renew_registration",
                         raised |-> r.raised]
    /\ UNCHANGED <<cvars, mvars, rvars, scans, fact, operation>>

CreateInitialCall ==
    \E number \in RegistrationNumbers, date \in RegistrationDates :
      CreateInitial(number, date)

RenewAircraftCall ==
    \E date \in RegistrationDates \cup {NoTime} : RenewAircraft(date)

RenewRecordCall ==
    \E i \in 1 .. Len(registrations),
       date \in RegistrationDates \cup {NoTime} : RenewRecord(i, date)

NextRegistration ==
    \/ CreateInitialCall
    \/ RenewAircraftCall
    \/ RenewRecordCall

SpecRegistration == InitRegistration /\ [][NextRegistration]_vars

\* =================================================================== claims
StatusRank(st) == IF st = RED THEN 2 ELSE IF st = YELLOW THEN 1 ELSE 0

\* the most severe status of a set of statuses, green for the empty set
WorstOf(S) ==
    CHOOSE st \in ComplianceStatus :
        /\ \A x \in S : StatusRank(x) <= StatusRank(st)
        /\ (st = GREEN \/ \E x \in S : x = st)

StatusesOf(rule_results) ==
    {rule_results[i].status : i \in 1..Len(rule_results)}

RunStep == results.op = "none" /\ results'.op = "run"

\* the object a pair is resolved to when it is processed
ResolvedObject(p) ==
    LET o == [content_type |-> p.content_type, object_id |-> p.object_id]
    IN IF exists[o] THEN o ELSE None

\* C1: the aggregate compliance status of every object is the worst status
\* among its stored results for active rules (green when there is none), and
\* the overall_status returned by check_object_compliance, alone or inside
\* bulk_check_compliance, is the worst status among the results of the rules
\* it evaluated, whatever their order.
C1_AggregateIsWorstCase ==
    /\ \A o \in Objects :
         compliance_status(checks, o, rules) =
           WorstOf({c.status : c \in {x \in Rows(checks) :
                       ObjectOfRow(x) = o /\ rules[x.rule].is_active}})
    /\ (results.op = "check" /\ ~results.raised) =>
         results.overall_status = WorstOf(StatusesOf(results.rule_results))
    /\ \A i \in 1..Len(results.object_results) :
         results.object_results[i].overall_status =
           WorstOf(StatusesOf(results.object_results[i].rule_results))

\* a check that met a red result first and a yellow one after it
C1_Witness ==
    /\ results.op = "check"
    /\ Len(results.rule_results) = 2
    /\ results.rule_results[1].status = RED
    /\ results.rule_results[2].status = YELLOW
    /\ results.overall_status = RED
    /\ compliance_status(checks, results.object, rules) = RED

\* C2: the ComplianceCheck table never holds more than one row for a
\* (content type, object id, rule) key, and holds rows for such keys only.
C2_OneRowPerKey ==
    /\ \A c \in Rows(checks) : KeyOf(c) \in Pairs
    /\ \A p \in Pairs :
         SumCopies(checks, {c \in Rows(checks) : KeyOf(c) = p}) <= 1

\* a scheduled run has re-evaluated a stored row to a non-green status
C2_Witness ==
    /\ call.op = "run"
    /\ \E p \in call.evaluated :
         \E c \in Rows(checks) : KeyOf(c) = p /\ c.status # GREEN

\* C3 (as claimed): whatever scans have run, every schedule has at most one
\* uncompleted work item generated by it for its aircraft: a scan that finds
\* such an item creates no further one.
C3_OneUncompletedItemPerSchedule ==
    \A s \in Schedules :
      SumCopies(items,
                {it \in BagToSet(items) :
                   /\ MatchesSchedule(it, schedules[s], schedules[s].aircraft)
                   /\ ~it.is_completed}) <= 1

\* C4 (as claimed): right after a scheduled run, a second run at the same
\* clock finds none of the checks that the first run evaluated due again.
C4_SecondRunFindsNothingDue ==
    call.op = "run" =>
      \A c \in OverdueRows(checks, rules, now) : KeyOf(c) \notin call.evaluated

C6_NeverEvaluatedPairIsEvaluated ==
    (call.op = "run" /\ results.checks_failed = 0) =>
      \A o \in Objects, r \in DOMAIN rules :
        (exists[o] /\ rules[r].is_active) =>
          \/ Pair(o, r) \in call.evaluated
          \/ \E c \in Rows(checks) :
               KeyOf(c) = Pair(o, r) /\ c.next_check_due # NoTime

\* C7 (as claimed): every pair evaluated by the last call has
\* next_check_due = now + the check frequency of its rule.
C7_NextDueIsNowPlusFrequency ==
    \A p \in call.evaluated :
      \A c \in Rows(checks) :
        KeyOf(c) = p =>
          c.next_check_due = now + rules[p.rule].check_frequency_hours

\* C8: a scheduled run never raises; every object that has a selected check
\* gets an entry in objects_processed, the object whose check failed gets an
\* error entry, and every selected check of a stored object whose check did
\* not fail is evaluated.
C8_RunSurvivesFailure ==
    call.op = "run" =>
      /\ ~results.raised
      /\ \A p \in call.selected :
           \E i \in 1..Len(results.objects_processed) :
             results.objects_processed[i].object = ResolvedObject(p)
      /\ \A p \in call.selected :
           (ResolvedObject(p) # None
              /\ \A q \in call.faulted : ResolvedObject(q) # ResolvedObject(p))
             => p \in call.evaluated
      /\ \A q \in call.faulted :
           \E i \in 1..Len(results.objects_processed) :
             /\ results.objects_processed[i].object = ResolvedObject(q)
             /\ results.objects_processed[i].error

\* a run in which the check of the first object failed and a later object
\* was still checked
C8_Witness ==
    /\ call.op = "run"
    /\ Len(results.objects_processed) = 2
    /\ results.objects_processed[1].error
    /\ ~results.objects_processed[2].error
    /\ results.objects_processed[2].checks > 0

\* C9 (as claimed): a scheduled run leaves the stored check of a pair whose
\* evaluation or write failed exactly as it was before the run, and the pair
\* is still selected as due afterwards.
C9_FailedPairIsUntouched ==
    [][RunStep =>
         \A q \in call'.faulted :
           /\ {c \in Rows(checks') : KeyOf(c) = q}
                = {c \in Rows(checks) : KeyOf(c) = q}
           /\ \E c \in OverdueRows(checks', rules, now) : KeyOf(c) = q]_vars

\* C10 (as claimed): run_all_active_schedules never raises, and its report has
\* an entry for every active schedule, whatever happened while an earlier
\* schedule or aircraft was scanned.
C10_ScanAllSurvivesFailure ==
    report.op = "run_all" =>
      /\ ~report.raised
      /\ \A s \in Schedules :
           schedules[s].is_active =>
             \E i \in 1..Len(report.all_results) :
               report.all_results[i].schedule = s

\* the entries of the scans that the last call reports, with their schedule
ReportedEntries ==
    {[schedule |-> report.schedule, entry |-> report.results[i]] :
        i \in 1..Len(report.results)}
    \cup UNION {{[schedule |-> report.all_results[k].schedule,
                  entry |-> report.all_results[k].results[i]] :
                   i \in 1..Len(report.all_results[k].results)} :
                k \in 1..Len(report.all_results)}

\* C11 (as claimed): a scan of a (schedule, aircraft) pair whose latest
\* completed work item was completed today finds the pair dormant: it does
\* not trigger and generates nothing, for calendar and for flight-hours
\* schedules alike.
C11_DormantAfterCompletion ==
    \A e \in ReportedEntries :
      last_maintenance(items, schedules[e.schedule], e.entry.aircraft) = today
        => /\ ~e.entry.triggered
           /\ ~e.entry.requirement_generated

\* the completion dates of the completed work items of a schedule's aircraft
\* that match the schedule
CompletedDates(s) ==
    {it.completed_date :
       it \in {x \in BagToSet(items) :
                 /\ x.aircraft = schedules[s].aircraft
                 /\ x.item = schedules[s].maintenance_item
                 /\ x.is_completed}}

\* the work items that are completed
CompletedItems == SetToBag({it \in BagToSet(items) : it.is_completed})

\* C12: for an active calendar schedule check_trigger_conditions triggers
\* exactly when no completed matching item exists (with the first-run reason)
\* or the latest completion is at least calendar_interval_days -
\* advance_notice_days days ago; the uncompleted items do not change the
\* result, and a scan reports the same decision.
C12_CalendarTrigger ==
    \A s \in Schedules :
      LET sch == schedules[s]
          a == sch.aircraft
          D == CompletedDates(s)
          trig == check_trigger_conditions(sch, a, aircraft, items, today)
          expected ==
            \/ D = {}
            \/ \E d \in D :
                 /\ \A e \in D : e <= d
                 /\ today - d >=
                      sch.calendar_interval_days - sch.advance_notice_days
      IN (sch.is_active /\ sch.schedule_type = "calendar") =>
           /\ trig.triggered = expected
           /\ D = {} =>
                trig.reason =
                  "Calendar trigger: No previous maintenance recorded"
           /\ trig = check_trigger_conditions(sch, a, aircraft,
                                              CompletedItems, today)
           /\ \A e \in ReportedEntries :
                e.schedule = s => e.entry.triggered = expected

\* a scan of the calendar schedule that triggered on the days since the
\* completion of its one completed item
C12_Witness ==
    /\ report.op = "scan"
    /\ schedules[report.schedule].schedule_type = "calendar"
    /\ Cardinality(CompletedDates(report.schedule)) = 1
    /\ \E i \in 1..Len(report.results) :
         /\ report.results[i].triggered
         /\ report.results[i].reason = "Calendar trigger: days since last"

\* C13 (as claimed): for an active flight-hours schedule
\* check_trigger_conditions triggers exactly when the aircraft's
\* current_flight_hours is >= flight_hours_interval - the advance notice of
\* the schedule (advance_notice_days).
C13_TriggersAtScheduleMargin ==
    \A s \in Schedules :
      LET sch == schedules[s]
          a == sch.aircraft
      IN (sch.is_active /\ sch.schedule_type = "flight_hours") =>
           check_trigger_conditions(sch, a, aircraft, items, today).triggered
             = (aircraft[a].current_flight_hours >=
                  sch.flight_hours_interval - sch.advance_notice_days)

\* C13 (amended): for an active flight-hours schedule
\* check_trigger_conditions triggers exactly when the aircraft's
\* current_flight_hours is >= flight_hours_interval - 5, the same fixed
\* margin for every schedule; the latest completed item is looked up but
\* only changes the reason, and a scan reports the same decision.
C13_TriggersAtFixedMargin ==
    \A s \in Schedules :
      LET sch == schedules[s]
          a == sch.aircraft
          trig == check_trigger_conditions(sch, a, aircraft, items, today)
          expected == aircraft[a].current_flight_hours >=
                        sch.flight_hours_interval - FlightHoursAdvance
      IN (sch.is_active /\ sch.schedule_type = "flight_hours") =>
           /\ trig.triggered = expected
           /\ trig.triggered =>
                trig.reason =
                  IF CompletedDates(s) = {}
                  THEN "Flight hours trigger: Initial interval reached"
                  ELSE "Flight hours trigger: hours since last"
           /\ \A e \in ReportedEntries :
                e.schedule = s => e.entry.triggered = expected

\* a scan of the flight-hours schedule that triggered although a matching
\* item had been completed
C13_Witness ==
    /\ report.op = "scan"
    /\ schedules[report.schedule].schedule_type = "flight_hours"
    /\ CompletedDates(report.schedule) # {}
    /\ \E i \in 1..Len(report.results) :
         /\ report.results[i].triggered
         /\ report.results[i].reason = "Flight hours trigger: hours since last"

\* C14 (as claimed): every work item that a step generates for a schedule is
\* due today + advance_notice_days when the schedule is calendar-based and
\* today when it is flight-hours based.
C14_DueDateByScheduleType ==
    [][\A s \in Schedules :
         \A row \in BagToSet(items') :
           (/\ MatchesSchedule(row, schedules[s], schedules[s].aircraft)
            /\ ~row.is_completed
            /\ CopiesIn(row, items') > CopiesIn(row, items))
             => row.due = IF schedules[s].schedule_type = "calendar"
                          THEN today + schedules[s].advance_notice_days
                          ELSE today]_vars

\* C15 (as claimed): every stored work item with is_completed set has its
\* completed_date, completed_by_name and completed_by_arn all present.
C15_CompletedOnlyWithAllFields ==
    \A row \in BagToSet(items) : row.is_completed => completion_valid(row)

\* the unmodified scores of an entry, and the scores under the category's
\* modifiers (in ten-thousandths)
InherentScore(e) == e.inherent_likelihood * e.inherent_consequence
ResidualScore(e) == e.residual_likelihood * e.residual_consequence
ModifiedScore(cat, likelihood, consequence) ==
    (likelihood * cat.default_likelihood_modifier)
      * (consequence * cat.default_consequence_modifier)

\* C16: saving an entry whose residual score exceeds its inherent score is
\* rejected with a validation error and the register keeps what it held; so
\* the stored entry has a residual score at most its inherent score, without
\* and with the category's modifiers.
C16_ResidualNeverExceedsInherent ==
    /\ (outcome.op = "save"
        /\ ResidualScore(outcome.before.entry)
             > InherentScore(outcome.before.entry))
       => /\ outcome.error = "ValidationError"
          /\ register = outcome.before.register
    /\ register # NoRisk
       => /\ ResidualScore(register) <= InherentScore(register)
          /\ ModifiedScore(category, register.residual_likelihood,
                           register.residual_consequence)
               <= ModifiedScore(category, register.inherent_likelihood,
                                register.inherent_consequence)

\* a stored entry was reassessed above its inherent score, the save was
\* rejected and the register still holds the earlier row
C16_Witness ==
    /\ outcome.op = "save"
    /\ outcome.error = "ValidationError"
    /\ ResidualScore(outcome.before.entry)
         > InherentScore(outcome.before.entry)
    /\ register # NoRisk
    /\ register = outcome.before.register

\* C17: when the save is rejected by the validation, the instance the caller
\* holds is as it was before the call (risk number, both ratings, review
\* date) and no maintenance item was created.
C17_RejectedSaveLeavesEntryUnmodified ==
    (outcome.op = "save" /\ outcome.error = "ValidationError")
    => /\ entry.risk_number = outcome.before.entry.risk_number
       /\ entry.inherent_risk_rating
            = outcome.before.entry.inherent_risk_rating
       /\ entry.residual_risk_rating
            = outcome.before.entry.residual_risk_rating
       /\ entry.review_date = outcome.before.entry.review_date
       /\ items = outcome.before.items

\* whether a rating is the band of a modified score (in ten-thousandths)
RatingIsBand(rating, score) ==
    LET unit == ModifierScale * ModifierScale
    IN /\ rating \in {"extreme", "high", "medium", "low", "negligible"}
       /\ rating = "extreme" <=> score >= 20 * unit
       /\ rating = "high" <=> (score >= 15 * unit /\ score < 20 * unit)
       /\ rating = "medium" <=> (score >= 8 * unit /\ score < 15 * unit)
       /\ rating = "low" <=> (score >= 3 * unit /\ score < 8 * unit)
       /\ rating = "negligible" <=> score < 3 * unit

UnitModifiers ==
    /\ category.default_likelihood_modifier = ModifierScale
    /\ category.default_consequence_modifier = ModifierScale

\* C18: for likelihood and consequence in 1..5 and modifiers in 0.10 .. 2.00,
\* the rating computed is the band of (likelihood x likelihood modifier) x
\* (consequence x consequence modifier): extreme from 20, high from 15, medium
\* from 8, low from 3, negligible below; with both modifiers 1.0, (5,5) is
\* extreme and (3,3) is medium.
C18_RatingIsBandOfModifiedScore ==
    entry.inherent_risk_rating # ""
    => /\ (entry.inherent_likelihood \in 1 .. 5
           /\ entry.inherent_consequence \in 1 .. 5)
          => RatingIsBand(entry.inherent_risk_rating,
                          ModifiedScore(category, entry.inherent_likelihood,
                                        entry.inherent_consequence))
       /\ (entry.residual_likelihood \in 1 .. 5
           /\ entry.residual_consequence \in 1 .. 5)
          => RatingIsBand(entry.residual_risk_rating,
                          ModifiedScore(category, entry.residual_likelihood,
                                        entry.residual_consequence))
       /\ (UnitModifiers /\ entry.inherent_likelihood = 5
           /\ entry.inherent_consequence = 5)
          => entry.inherent_risk_rating = "extreme"
       /\ (UnitModifiers /\ entry.residual_likelihood = 3
           /\ entry.residual_consequence = 3)
          => entry.residual_risk_rating = "medium"

\* the ratings of inherent (5,5) and residual (3,3) were computed under
\* modifiers 1.0
C18_Witness ==
    /\ outcome.op = "update_risk_ratings"
    /\ UnitModifiers
    /\ <<entry.inherent_likelihood, entry.inherent_consequence>> = <<5, 5>>
    /\ <<entry.residual_likelihood, entry.residual_consequence>> = <<3, 3>>
    /\ entry.inherent_risk_rating = "extreme"
    /\ entry.residual_risk_rating = "medium"

\* C19: control_effectiveness is max(0, min(100, (inherent score - residual
\* score) / inherent score x 100)) on the unmodified scores, lies within
\* [0, 100], is 0 when the inherent score is 0, and is 64 for inherent (5,5)
\* and residual (3,3).
C19_ControlEffectiveness ==
    outcome.op = "control_effectiveness"
    => LET v == outcome.value
           inh == InherentScore(entry)
           res == ResidualScore(entry)
       IN /\ v.den > 0
          /\ 0 <= v.num /\ v.num <= 100 * v.den
          /\ inh = 0 => v.num = 0
          /\ inh # 0
             => IF (inh - res) * 100 < 0 THEN v.num = 0
                ELSE IF (inh - res) * 100 > 100 * inh
                THEN v.num = 100 * v.den
                ELSE v.num * inh = (inh - res) * 100 * v.den
          /\ (/\ <<entry.inherent_likelihood,
                   entry.inherent_consequence>> = <<5, 5>>
              /\ <<entry.residual_likelihood,
                   entry.residual_consequence>> = <<3, 3>>)
             => v.num = 64 * v.den

\* the effectiveness of inherent (5,5) and residual (3,3) was read: 64
C19_Witness ==
    /\ outcome.op = "control_effectiveness"
    /\ <<entry.inherent_likelihood, entry.inherent_consequence>> = <<5, 5>>
    /\ <<entry.residual_likelihood, entry.residual_consequence>> = <<3, 3>>
    /\ outcome.value.num = 64 * outcome.value.den

\* calendar arithmetic on dates written in days since 1 January of year 0, in
\* a calendar of 365-day years
MonthDays == <<31, 28, 31, 30, 31, 30, 31, 31, 30, 31, 30, 31>>

RECURSIVE DaysBeforeMonth(_)
DaysBeforeMonth(m) ==
    IF m = 1 THEN 0 ELSE DaysBeforeMonth(m - 1) + MonthDays[m - 1]

MonthOf(doy) ==
    CHOOSE m \in 1 .. 12 :
      DaysBeforeMonth(m) <= doy /\ doy < DaysBeforeMonth(m) + MonthDays[m]

\* the date n calendar months after date d (the day of the month is kept,
\* or is the last day of a shorter month)
AddMonths(d, n) ==
    LET y == d \div 365
        doy == d % 365
        m == MonthOf(doy)
        dom == doy - DaysBeforeMonth(m) + 1
        total == (m - 1) + n
        y2 == y + (total \div 12)
        m2 == (total % 12) + 1
        dom2 == IF dom > MonthDays[m2] THEN MonthDays[m2] ELSE dom
    IN y2 * 365 + DaysBeforeMonth(m2) + dom2 - 1

BandMonths ==
    [extreme |-> 3, high |-> 6, medium |-> 12, low |-> 24, negligible |-> 36]

\* C20: schedule_next_review sets the review date to the assessment date plus
\* the months of the residual rating band (extreme 3, high 6, medium 12, low
\* 24, negligible 36); the result depends on the assessment date and the band
\* only, not on the current date, so applying it again gives the same date.
C20_ReviewDateIsBandMonthsAfterAssessment ==
    (outcome.op = "schedule_next_review"
     /\ entry.residual_risk_rating \in DOMAIN BandMonths)
    => /\ entry.review_date
            = AddMonths(entry.assessment_date,
                        BandMonths[entry.residual_risk_rating])
       /\ schedule_next_review(entry).review_date = entry.review_date

\* the number of per-object results of the last bulk call with a status
CountWithStatus(S) ==
    Cardinality({i \in 1 .. Len(results.object_results) :
                   results.object_results[i].overall_status \in S})

\* C21: a bulk_check_compliance call that returns gives one per-object result
\* for every object of the list, and counts each object in the bucket of its
\* own overall_status, so that compliant + warning + non-compliant = total.
C21_BulkCountsPartitionObjects ==
    (results.op = "bulk" /\ ~results.raised)
    => /\ Len(results.object_results) = results.total_objects
       /\ \A p \in call.selected :
            \E i \in 1 .. Len(results.object_results) :
              results.object_results[i].object = ResolvedObject(p)
       /\ results.compliant_objects = CountWithStatus({GREEN})
       /\ results.warning_objects = CountWithStatus({YELLOW})
       /\ results.non_compliant_objects = CountWithStatus({RED})
       /\ results.compliant_objects + results.warning_objects
            + results.non_compliant_objects = results.total_objects

\* a bulk call over two objects returned, one object red and one green
C21_Witness ==
    /\ results.op = "bulk"
    /\ ~results.raised
    /\ results.total_objects = 2
    /\ results.non_compliant_objects = 1
    /\ results.compliant_objects = 1
    /\ results.object_results[1].object # results.object_results[2].object

\* the stored rows of the key that the two scans work on
ScannedRows == MatchingRows(checks, ScannedObject, ScannedRule)

\* C22: when two scans overlap on one (object, rule) key, the key never has
\* two rows, and once both scans have written, the stored status, details
\* and next_check_due are those of the newer of the two evaluations.
C22_OverlappingScansSerialized ==
    /\ RowCount(checks, ScannedObject, ScannedRule) <= 1
    /\ \A p \in Scans, q \in Scans :
         (/\ scans[p].pc = "done"
          /\ scans[q].pc = "done"
          /\ scans[p].seq < scans[q].seq)
         => \E c \in ScannedRows :
              /\ c.status = scans[q].check.status
              /\ c.details = scans[q].check.details
              /\ c.next_check_due = scans[q].check.next_check_due

\* C23: a passing evaluation yields green and a failing one the rule's
\* severity, which is yellow or red; so a failing evaluation never yields
\* green, and the status stored after it is the rule's severity.
C23_FailYieldsSeverityNeverGreen ==
    \A p \in call.evaluated :
      \A c \in {x \in Rows(checks) : KeyOf(x) = p} :
        IF p \in call.failing
        THEN /\ rules[p.rule].severity \in {YELLOW, RED}
             /\ c.status = rules[p.rule].severity
             /\ c.status # GREEN
        ELSE c.status = GREEN

ItemsCreatedBy(s) ==
    LET S == {it \in BagToSet(items) :
                MatchesSchedule(it, schedules[s], schedules[s].aircraft)}
    IN SumCopies(items, S)

\* the counter and the date of generation of every schedule
GenerationFields ==
    [s \in Schedules |-> <<schedules[s].total_generated_items,
                           schedules[s].last_generated_date>>]

\* C25: total_generated_items of every schedule equals the number of work
\* items the schedule has created, before and after every step, and in every
\* step a schedule creates no item or one: with one, the counter grows by one
\* and last_generated_date becomes today; with none, both fields stay as they
\* were.  (A step that changes neither the items nor the two fields keeps
\* the equality it started with.)
C25_CounterMatchesCreatedItems ==
    [][\/ UNCHANGED <<items, GenerationFields>>
       \/ \A s \in Schedules :
            LET before == ItemsCreatedBy(s)
                after == ItemsCreatedBy(s)'
                created == after - before
            IN /\ schedules[s].total_generated_items = before
               /\ schedules'[s].total_generated_items = after
               /\ created \in {0, 1}
               /\ created = 1 => schedules'[s].last_generated_date = today
               /\ created = 0 => schedules'[s].last_generated_date
                                   = schedules[s].last_generated_date]_vars

\* a scan has generated a second item of a schedule, and its entry says so
C25_Witness ==
    /\ report.op = "scan"
    /\ ~report.raised
    /\ \E i \in 1 .. Len(report.results) :
         report.results[i].requirement_generated
    /\ schedules[report.schedule].total_generated_items = 2
    /\ schedules[report.schedule].last_generated_date = today
    /\ ItemsCreatedBy(report.schedule) = 2

\* C26: in the report of a scheduled run every overdue check found is counted
\* once: in checks_completed when it was evaluated and its result written, in
\* checks_failed when it was not evaluated, so that the two add up to
\* overdue_checks_found.
C26_EachOverdueCheckCountedOnce ==
    call.op = "run"
    => /\ results.checks_completed + results.checks_failed
            = results.overdue_checks_found
       /\ results.checks_completed = Cardinality(call.evaluated)
       /\ results.checks_failed
            = Cardinality(call.selected \ call.evaluated)

\* C27: the status that a scheduled run reports for an object it processed
\* is the aggregate compliance status of the object after the run, the worst
\* status over the stored results of all its active rules.
C27_ReportedStatusIsAggregateStatus ==
    call.op = "run"
    => \A i \in 1 .. Len(results.objects_processed) :
         LET e == results.objects_processed[i]
         IN (~e.error /\ e.object # None)
            => e.status = compliance_status(checks, e.object, rules)

\* the order of the rating bands
BandRank(rating) ==
    CASE rating = "negligible" -> 0
      [] rating = "low" -> 1
      [] rating = "medium" -> 2
      [] rating = "high" -> 3
      [] rating = "extreme" -> 4

\* C28: the stored entry's residual rating band is never more severe than
\* its inherent rating band, after every save of the entry.
C28_ResidualBandAtMostInherentBand ==
    register # NoRisk
    => BandRank(register.residual_risk_rating)
         <= BandRank(register.inherent_risk_rating)

\* a stored entry was saved again and holds a residual band below its
\* inherent band, under modifiers that are not both 1.00
C28_Witness ==
    /\ outcome.op = "save"
    /\ outcome.error = "none"
    /\ outcome.before.register # NoRisk
    /\ register # NoRisk
    /\ BandRank(register.residual_risk_rating)
         < BandRank(register.inherent_risk_rating)
    /\ category.default_likelihood_modifier # ModifierScale

\* the statuses that end the workflow
TerminalStatuses == {"completed", "cancelled"}

\* C29: once the status is completed or cancelled no call of authorize,
\* start, complete or cancel changes it, and every such call raises; a call
\* that raises leaves the status as it was; and the status becomes completed
\* only from in_progress.
C29_TerminalStatusesAreFinal ==
    [][LET called == operation'.passed_checks = operation.passed_checks
       IN /\ operation.status \in TerminalStatuses
             => /\ operation'.status = operation.status
                /\ called => operation'.last.raised
          /\ (called /\ operation'.last.raised)
             => operation'.status = operation.status
          /\ (operation'.status = "completed"
              /\ operation.status # "completed")
             => operation.status = "in_progress"]_vars

\* the records of the aircraft that are current
CurrentRegistrations ==
    {i \in 1 .. Len(registrations) :
       /\ registrations[i].is_current_registration
       /\ registrations[i].registration_status = "current"}

\* C30: after any sequence of create_initial_registration and
\* renew_registration calls at most one registration of the aircraft is
\* current, and every other record, one that was replaced, is historical.
C30_AtMostOneCurrentRegistration ==
    /\ Cardinality(CurrentRegistrations) <= 1
    /\ \A i \in 1 .. Len(registrations) :
         i \notin CurrentRegistrations
         => /\ registrations[i].registration_status = "historical"
            /\ ~registrations[i].is_current_registration
====
